---- MODULE Spec2Model ----
(***************************************************************************)
(* A model of mako_vod_final.py: the playback resolver (get_video_url),    *)
(* the content extraction engine (extract_content) and the show-name cache *)
(* policy (process_show_names).                                            *)
(*                                                                         *)
(* Representation.  A Python str is a sequence of code points, a bytes     *)
(* object a sequence of numbers in 0..255.  An optional value is a         *)
(* sequence of length at most one: None is << >>, a present value v is     *)
(* <<v>>.  A decoded JSON value is a record [t |-> tag, v |-> payload].    *)
(***************************************************************************)
EXTENDS Integers, Sequences, FiniteSets, TLC

\* ------------------------------------------------------------------------
\* Optional values and generic sequence helpers
\* ------------------------------------------------------------------------
None == << >>

Some(v) == <<v>>

IsNone(o) == Len(o) = 0

Get(o) == o[1]

Range(s) == {s[i] : i \in DOMAIN s}

Take(s, n) == SubSeq(s, 1, n)

Drop(s, n) == SubSeq(s, n + 1, Len(s))

Min(a, b) == IF a < b THEN a ELSE b

\* F applied to the value of x, which is computed once
Bind(x, F(_)) == CHOOSE r \in {F(v) : v \in {x}} : TRUE

\* s[i..] starts with p
StartsAt(s, i, p) ==
    /\ i >= 1
    /\ i + Len(p) - 1 <= Len(s)
    /\ \A k \in 1..Len(p) : s[i + k - 1] = p[k]

Contains(s, p) == \E i \in 1..(Len(s) + 1) : StartsAt(s, i, p)

\* ------------------------------------------------------------------------
\* Characters: the printable ASCII table, code points 32..126
\* ------------------------------------------------------------------------
Ascii ==
    <<" ", "!", "\"", "#", "$", "%", "&", "'", "(", ")", "*", "+", ",", "-", ".", "/",
      "0", "1", "2", "3", "4", "5", "6", "7", "8", "9", ":", ";", "<", "=", ">", "?",
      "@", "A", "B", "C", "D", "E", "F", "G", "H", "I", "J", "K", "L", "M", "N", "O",
      "P", "Q", "R", "S", "T", "U", "V", "W", "X", "Y", "Z", "[", "\\", "]", "^", "_",
      "backtick", "a", "b", "c", "d", "e", "f", "g", "h", "i", "j", "k", "l", "m", "n", "o",
      "p", "q", "r", "s", "t", "u", "v", "w", "x", "y", "z", "{", "|", "}", "~">>

Ord(ch) == 31 + (CHOOSE i \in DOMAIN Ascii : Ascii[i] = ch)

\* the str written as a tuple of its characters
T(chars) == [i \in DOMAIN chars |-> Ord(chars[i])]

IsDigit(c) == c \in 48..57

IsUpper(c) == c \in 65..90

IsLower(c) == c \in 97..122

\* the class [\w-] of the two guid patterns, on ASCII
IsWordOrDash(c) == IsDigit(c) \/ IsUpper(c) \/ IsLower(c) \/ c = 95 \/ c = 45

ToLower(c) == IF IsUpper(c) THEN c + 32 ELSE c

LowerText(s) == [i \in DOMAIN s |-> ToLower(s[i])]

IsSpace(c) == c \in {9, 10, 11, 12, 13, 32}

\* str.strip()
RECURSIVE LStrip(_)
LStrip(s) == IF Len(s) > 0 /\ IsSpace(s[1]) THEN LStrip(Tail(s)) ELSE s

RECURSIVE RStrip(_)
RStrip(s) ==
    IF Len(s) > 0 /\ IsSpace(s[Len(s)]) THEN RStrip(Take(s, Len(s) - 1)) ELSE s

Strip(s) == RStrip(LStrip(s))

\* ------------------------------------------------------------------------
\* Crypto codec: crypto_op and what it calls
\* ------------------------------------------------------------------------
\* AES.block_size
block_size == 16

\* CRYPTO[type]: the key and iv bytes of each keyset
CRYPTO(type) ==
    IF type = "playlist"
    THEN [key |-> T(<<"L", "T", "f", "7", "r", "/", "z", "M", "2", "V", "n", "d", "H", "w", "P", "+", "4", "S", "o", "6", "b", "w", "=", "=">>),
          iv |-> T(<<"t", "h", "e", "E", "x", "a", "c", "t", "1", "6", "C", "h", "a", "r", "s", "=">>)]
    ELSE [key |-> T(<<"Y", "h", "n", "U", "a", "X", "M", "m", "l", "t", "B", "6", "g", "d", "8", "p", "9", "S", "W", "l", "e", "Q", "=", "=">>),
          iv |-> T(<<"t", "h", "e", "E", "x", "a", "c", "t", "1", "6", "C", "h", "a", "r", "s", "=">>)]

\* str.encode('utf-8'), code points below 2048: one byte below 128, else two
RECURSIVE Utf8EncodeFrom(_, _)
Utf8EncodeFrom(s, i) ==
    IF i > Len(s) THEN << >>
    ELSE IF \A k \in i..Len(s) : s[k] < 128 THEN Drop(s, i - 1)
    ELSE (IF s[i] < 128 THEN <<s[i]>>
          ELSE <<192 + (s[i] \div 64), 128 + (s[i] % 64)>>) \o Utf8EncodeFrom(s, i + 1)

Utf8Encode(s) == Utf8EncodeFrom(s, 1)

\* bytes.decode('utf-8'): None stands for UnicodeDecodeError
RECURSIVE Utf8DecodeFrom(_, _)
Utf8DecodeFrom(b, i) ==
    IF i > Len(b) THEN Some(<< >>)
    ELSE IF \A k \in i..Len(b) : b[k] < 128 THEN Some(Drop(b, i - 1))
    ELSE IF b[i] < 128
    THEN LET rest == Utf8DecodeFrom(b, i + 1)
         IN IF IsNone(rest) THEN None ELSE Some(<<b[i]>> \o Get(rest))
    ELSE IF b[i] \in 194..223 /\ i + 1 <= Len(b) /\ b[i + 1] \in 128..191
    THEN LET rest == Utf8DecodeFrom(b, i + 2)
         IN IF IsNone(rest) THEN None
            ELSE Some(<<(b[i] - 192) * 64 + (b[i + 1] - 128)>> \o Get(rest))
    ELSE None

Utf8Decode(b) == Utf8DecodeFrom(b, 1)

\* padding that adds nothing to a whole number of blocks
PadPartialBlocksOnly(data) ==
    LET n == (block_size - (Len(data) % block_size)) % block_size
    IN data \o [i \in 1..n |-> n]

\* Crypto.Util.Padding.pad(data, block_size, style='pkcs7')
pad(data) ==
    LET n == block_size - (Len(data) % block_size)
    IN data \o [i \in 1..n |-> n]

\* Crypto.Util.Padding.unpad(data, block_size, style='pkcs7'): None stands
\* for ValueError
unpad(data) ==
    LET len == Len(data)
    IN IF len = 0 \/ len % block_size # 0 THEN None
       ELSE LET n == data[len]
            IN IF n < 1 \/ n > Min(block_size, len) THEN None
               ELSE IF \E i \in (len - n + 1)..len : data[i] # n THEN None
               ELSE Some(Take(data, len - n))

\* bitwise exclusive or of two bytes
XorBit(a, b, w) == (((a \div w) + (b \div w)) % 2) * w

Xor(a, b) ==
    XorBit(a, b, 1) + XorBit(a, b, 2) + XorBit(a, b, 4) + XorBit(a, b, 8)
    + XorBit(a, b, 16) + XorBit(a, b, 32) + XorBit(a, b, 64) + XorBit(a, b, 128)

XorBlock(x, y) == [i \in 1..block_size |-> Xor(x[i], y[i])]

\* The AES block transform is a library primitive: it is modelled as a keyed
\* bijection on 16-byte blocks (bytewise addition of the key stream).
AesEncryptBlock(key, blk) ==
    [i \in 1..block_size |-> (blk[i] + key[((i - 1) % Len(key)) + 1]) % 256]

AesDecryptBlock(key, blk) ==
    [i \in 1..block_size |-> (blk[i] + 256 - key[((i - 1) % Len(key)) + 1]) % 256]

\* AES.new(key, MODE_CBC, iv).encrypt(data), data a whole number of blocks:
\* each cipher block c is the transform of the plain block xor the previous
\* cipher block
RECURSIVE CbcEncrypt(_, _, _)
CbcEncrypt(key, prev, data) ==
    IF Len(data) = 0 THEN << >>
    ELSE CHOOSE out \in
            {c \o CbcEncrypt(key, c, Drop(data, block_size)) :
                c \in {AesEncryptBlock(key, XorBlock(Take(data, block_size), prev))}} : TRUE

\* AES.new(key, MODE_CBC, iv).decrypt(data): None stands for the ValueError
\* raised when data is not a whole number of blocks
RECURSIVE CbcDecryptBlocks(_, _, _)
CbcDecryptBlocks(key, prev, data) ==
    IF Len(data) = 0 THEN << >>
    ELSE CHOOSE out \in
            {XorBlock(AesDecryptBlock(key, c), prev)
             \o CbcDecryptBlocks(key, c, Drop(data, block_size)) :
                c \in {Take(data, block_size)}} : TRUE

CbcDecrypt(key, iv, data) ==
    IF Len(data) % block_size # 0 THEN None
    ELSE Some(CbcDecryptBlocks(key, iv, data))

\* the base64 alphabet and its pad character '='
B64Alphabet ==
    T(<<"A", "B", "C", "D", "E", "F", "G", "H", "I", "J", "K", "L", "M", "N", "O", "P",
        "Q", "R", "S", "T", "U", "V", "W", "X", "Y", "Z", "a", "b", "c", "d", "e", "f",
        "g", "h", "i", "j", "k", "l", "m", "n", "o", "p", "q", "r", "s", "t", "u", "v",
        "w", "x", "y", "z", "0", "1", "2", "3", "4", "5", "6", "7", "8", "9", "+", "/">>)

B64Pad == Ord("=")

B64Value(c) == (CHOOSE i \in DOMAIN B64Alphabet : B64Alphabet[i] = c) - 1

\* base64.b64encode: character j of the output, from the group of three
\* bytes it belongs to
b64encode(b) ==
    LET n == Len(b)
        byte(i) == IF i <= n THEN b[i] ELSE 0
        char(j) ==
            LET g == 3 * ((j - 1) \div 4)
                p == (j - 1) % 4
            IN IF p = 0 THEN B64Alphabet[(byte(g + 1) \div 4) + 1]
               ELSE IF p = 1
               THEN B64Alphabet[((byte(g + 1) % 4) * 16 + (byte(g + 2) \div 16)) + 1]
               ELSE IF p = 2
               THEN IF g + 2 > n THEN B64Pad
                    ELSE B64Alphabet[((byte(g + 2) % 16) * 4 + (byte(g + 3) \div 64)) + 1]
               ELSE IF g + 3 > n THEN B64Pad
                    ELSE B64Alphabet[(byte(g + 3) % 64) + 1]
    IN [j \in 1..(4 * ((n + 2) \div 3)) |-> char(j)]

\* the bytes a run of 6-bit values decodes to; a last quad of two or three
\* values gives one or two bytes
SextetBytes(q) ==
    LET m == Len(q)
        nbytes == 3 * (m \div 4) + (IF m % 4 = 0 THEN 0 ELSE (m % 4) - 1)
        byte(k) ==
            LET g == 4 * ((k - 1) \div 3)
                p == (k - 1) % 3
            IN IF p = 0 THEN q[g + 1] * 4 + (q[g + 2] \div 16)
               ELSE IF p = 1 THEN (q[g + 2] % 16) * 16 + (q[g + 3] \div 4)
               ELSE (q[g + 3] % 4) * 64 + q[g + 4]
    IN [k \in 1..nbytes |-> byte(k)]

\* binascii.a2b_base64 (not strict).  Characters outside the alphabet are
\* skipped.  A pad character ends the input when the current quad holds at
\* least two data characters and the pads seen in a row complete it; what
\* follows is not read.  Without such a pad the data characters must fill
\* whole quads.  None stands for binascii.Error.
IsB64Data(c) == c \in Range(B64Alphabet)

IsB64Kept(c) == IsB64Data(c) \/ c = B64Pad

\* the data characters before position i of kept, modulo 4
QuadPos(kept, i) == Cardinality({k \in 1..(i - 1) : IsB64Data(kept[k])}) % 4

\* the pad characters in a row that end at position i of kept
PadsInRow(kept, i) ==
    i - (IF \E k \in 1..i : IsB64Data(kept[k])
         THEN CHOOSE k \in 1..i :
                 IsB64Data(kept[k]) /\ \A l \in (k + 1)..i : ~IsB64Data(kept[l])
         ELSE 0)

PadEnds(kept, i) ==
    /\ kept[i] = B64Pad
    /\ QuadPos(kept, i) >= 2
    /\ QuadPos(kept, i) + PadsInRow(kept, i) >= 4

a2b_base64(s) ==
    Bind(SelectSeq(s, IsB64Kept), LAMBDA kept :
        Bind({i \in DOMAIN kept : PadEnds(kept, i)}, LAMBDA ends :
            Bind(IF ends = {} THEN Len(kept)
                 ELSE (CHOOSE i \in ends : \A k \in ends : i <= k) - 1, LAMBDA read :
                Bind(SelectSeq(Take(kept, read), IsB64Data), LAMBDA data :
                    IF read = Len(kept) /\ Len(data) % 4 # 0 THEN None
                    ELSE Some(SextetBytes([i \in DOMAIN data |-> B64Value(data[i])]))))))

\* base64.b64decode of a str: a non-ASCII character raises ValueError
b64decode(s) ==
    Bind(s, LAMBDA str : IF \E i \in DOMAIN str : str[i] >= 128 THEN None ELSE a2b_base64(str))

\* crypto_op(data, op, type): the text produced, or None where the code
\* catches an exception and returns None
crypto_op(data, op, type) ==
    IF op = "decrypt"
    THEN Bind(b64decode(data), LAMBDA raw :
            IF IsNone(raw) THEN None
            ELSE Bind(CbcDecrypt(CRYPTO(type).key, CRYPTO(type).iv, Get(raw)), LAMBDA dec :
                    IF IsNone(dec) THEN None
                    ELSE Bind(unpad(Get(dec)), LAMBDA unp :
                            IF IsNone(unp) THEN None ELSE Utf8Decode(Get(unp)))))
    ELSE Bind(pad(Utf8Encode(data)), LAMBDA padded :
            Bind(CbcEncrypt(CRYPTO(type).key, CRYPTO(type).iv, padded), LAMBDA enc :
                Some(b64encode(enc))))

\* ------------------------------------------------------------------------
\* Decoded JSON values and the documents json.loads is given
\* ------------------------------------------------------------------------
JStr(s) == [t |-> "str", v |-> s]

JNum(n) == [t |-> "num", v |-> n]

JList(l) == [t |-> "list", v |-> l]

JDict(d) == [t |-> "dict", v |-> d]

JNull == [t |-> "null", v |-> << >>]

EmptyDict == JDict([k \in {} |-> JNull])

\* Python truth value of a decoded value
Truthy(j) ==
    CASE j.t = "str" -> Len(j.v) > 0
      [] j.t = "list" -> Len(j.v) > 0
      [] j.t = "dict" -> DOMAIN j.v # {}
      [] j.t = "num" -> j.v # 0
      [] OTHER -> FALSE

IsDict(j) == j.t = "dict"

\* d.get(k, default) on a dict d
DictGet(d, k, default) == IF k \in DOMAIN d.v THEN d.v[k] ELSE default

\* http://c/s.m3u8
URL_PLAIN ==
    T(<<"h", "t", "t", "p", ":", "/", "/", "c", "/", "s", ".", "m", "3", "u", "8">>)

\* http://c/s.m3u8?a=1
URL_QUERY ==
    T(<<"h", "t", "t", "p", ":", "/", "/", "c", "/", "s", ".", "m", "3", "u", "8", "?", "a",
        "=", "1">>)

\* http://c/s.m3u8#f
URL_FRAG ==
    T(<<"h", "t", "t", "p", ":", "/", "/", "c", "/", "s", ".", "m", "3", "u", "8", "#",
        "f">>)

\* t=1
TICKET_A ==
    T(<<"t", "=", "1">>)

\* hdnea=x
TICKET_B ==
    T(<<"h", "d", "n", "e", "a", "=", "x">>)

\* oops
NOT_JSON ==
    T(<<"o", "o", "p", "s">>)

\* !!
NOT_BASE64 ==
    T(<<"!", "!">>)

\* {}
DOC_EMPTY_OBJECT ==
    T(<<"{", "}">>)

\* []
DOC_ARRAY ==
    T(<<"[", "]">>)

\* {"media":[{"url":"http://c/s.m3u8"}]}
DOC_MEDIA_PLAIN ==
    T(<<"{", "\"", "m", "e", "d", "i", "a", "\"", ":", "[", "{", "\"", "u", "r", "l", "\"",
        ":", "\"", "h", "t", "t", "p", ":", "/", "/", "c", "/", "s", ".", "m", "3", "u", "8",
        "\"", "}", "]", "}">>)

\* {"media":[{"url":"http://c/s.m3u8?a=1"}]}
DOC_MEDIA_QUERY ==
    T(<<"{", "\"", "m", "e", "d", "i", "a", "\"", ":", "[", "{", "\"", "u", "r", "l", "\"",
        ":", "\"", "h", "t", "t", "p", ":", "/", "/", "c", "/", "s", ".", "m", "3", "u", "8",
        "?", "a", "=", "1", "\"", "}", "]", "}">>)

\* {"media":[{"url":"http://c/s.m3u8#f"}]}
DOC_MEDIA_FRAG ==
    T(<<"{", "\"", "m", "e", "d", "i", "a", "\"", ":", "[", "{", "\"", "u", "r", "l", "\"",
        ":", "\"", "h", "t", "t", "p", ":", "/", "/", "c", "/", "s", ".", "m", "3", "u", "8",
        "#", "f", "\"", "}", "]", "}">>)

\* {"media":[{"url":"http://c/s.m3u8"},{"url":"http://c/s.m3u8?a=1"}]}
DOC_MEDIA_TWO ==
    T(<<"{", "\"", "m", "e", "d", "i", "a", "\"", ":", "[", "{", "\"", "u", "r", "l", "\"",
        ":", "\"", "h", "t", "t", "p", ":", "/", "/", "c", "/", "s", ".", "m", "3", "u", "8",
        "\"", "}", ",", "{", "\"", "u", "r", "l", "\"", ":", "\"", "h", "t", "t", "p", ":", "/",
        "/", "c", "/", "s", ".", "m", "3", "u", "8", "?", "a", "=", "1", "\"", "}", "]", "}">>)

\* {"media":[]}
DOC_MEDIA_NONE ==
    T(<<"{", "\"", "m", "e", "d", "i", "a", "\"", ":", "[", "]", "}">>)

\* {"media":[{}]}
DOC_MEDIA_NO_URL ==
    T(<<"{", "\"", "m", "e", "d", "i", "a", "\"", ":", "[", "{", "}", "]", "}">>)

\* {"media":[{"url":""}]}
DOC_MEDIA_EMPTY_URL ==
    T(<<"{", "\"", "m", "e", "d", "i", "a", "\"", ":", "[", "{", "\"", "u", "r", "l", "\"",
        ":", "\"", "\"", "}", "]", "}">>)

\* {"media":["x"]}
DOC_MEDIA_NOT_DICT ==
    T(<<"{", "\"", "m", "e", "d", "i", "a", "\"", ":", "[", "\"", "x", "\"", "]", "}">>)

\* {"media":[{"url":5}]}
DOC_MEDIA_NUM_URL ==
    T(<<"{", "\"", "m", "e", "d", "i", "a", "\"", ":", "[", "{", "\"", "u", "r", "l", "\"",
        ":", "5", "}", "]", "}">>)

\* {"tickets":[{"ticket":"t=1"}]}
DOC_TICKET_A ==
    T(<<"{", "\"", "t", "i", "c", "k", "e", "t", "s", "\"", ":", "[", "{", "\"", "t", "i",
        "c", "k", "e", "t", "\"", ":", "\"", "t", "=", "1", "\"", "}", "]", "}">>)

\* {"tickets":[{"ticket":"hdnea=x"},{"ticket":"t=1"}]}
DOC_TICKET_TWO ==
    T(<<"{", "\"", "t", "i", "c", "k", "e", "t", "s", "\"", ":", "[", "{", "\"", "t", "i",
        "c", "k", "e", "t", "\"", ":", "\"", "h", "d", "n", "e", "a", "=", "x", "\"", "}", ",",
        "{", "\"", "t", "i", "c", "k", "e", "t", "\"", ":", "\"", "t", "=", "1", "\"", "}", "]",
        "}">>)

\* {"tickets":[]}
DOC_TICKETS_NONE ==
    T(<<"{", "\"", "t", "i", "c", "k", "e", "t", "s", "\"", ":", "[", "]", "}">>)

\* {"tickets":null}
DOC_TICKETS_NULL ==
    T(<<"{", "\"", "t", "i", "c", "k", "e", "t", "s", "\"", ":", "n", "u", "l", "l", "}">>)

\* {"tickets":[{}]}
DOC_TICKET_MISSING ==
    T(<<"{", "\"", "t", "i", "c", "k", "e", "t", "s", "\"", ":", "[", "{", "}", "]", "}">>)

\* {"tickets":[{"ticket":""}]}
DOC_TICKET_EMPTY ==
    T(<<"{", "\"", "t", "i", "c", "k", "e", "t", "s", "\"", ":", "[", "{", "\"", "t", "i",
        "c", "k", "e", "t", "\"", ":", "\"", "\"", "}", "]", "}">>)

\* {"tickets":["x"]}
DOC_TICKET_NOT_DICT ==
    T(<<"{", "\"", "t", "i", "c", "k", "e", "t", "s", "\"", ":", "[", "\"", "x", "\"", "]",
        "}">>)

\* {"props":{"pageProps":{"data":{"vod":{"itemVcmId":"v","galleryChannelId":"g","channelId":"c"}}}}}
DOC_VOD_FULL ==
    T(<<"{", "\"", "p", "r", "o", "p", "s", "\"", ":", "{", "\"", "p", "a", "g", "e", "P",
        "r", "o", "p", "s", "\"", ":", "{", "\"", "d", "a", "t", "a", "\"", ":", "{", "\"", "v",
        "o", "d", "\"", ":", "{", "\"", "i", "t", "e", "m", "V", "c", "m", "I", "d", "\"", ":",
        "\"", "v", "\"", ",", "\"", "g", "a", "l", "l", "e", "r", "y", "C", "h", "a", "n", "n",
        "e", "l", "I", "d", "\"", ":", "\"", "g", "\"", ",", "\"", "c", "h", "a", "n", "n", "e",
        "l", "I", "d", "\"", ":", "\"", "c", "\"", "}", "}", "}", "}", "}">>)

\* {"props":{"pageProps":{"data":{"vod":{"itemVcmId":"w","galleryChannelId":"g","channelId":"c"}}}}}
DOC_VOD_FULL_B ==
    T(<<"{", "\"", "p", "r", "o", "p", "s", "\"", ":", "{", "\"", "p", "a", "g", "e", "P",
        "r", "o", "p", "s", "\"", ":", "{", "\"", "d", "a", "t", "a", "\"", ":", "{", "\"", "v",
        "o", "d", "\"", ":", "{", "\"", "i", "t", "e", "m", "V", "c", "m", "I", "d", "\"", ":",
        "\"", "w", "\"", ",", "\"", "g", "a", "l", "l", "e", "r", "y", "C", "h", "a", "n", "n",
        "e", "l", "I", "d", "\"", ":", "\"", "g", "\"", ",", "\"", "c", "h", "a", "n", "n", "e",
        "l", "I", "d", "\"", ":", "\"", "c", "\"", "}", "}", "}", "}", "}">>)

\* {"props":{"pageProps":{"data":{"vod":{"itemVcmId":"v","galleryChannelId":"","channelId":"c"}}}}}
DOC_VOD_EMPTY_ID ==
    T(<<"{", "\"", "p", "r", "o", "p", "s", "\"", ":", "{", "\"", "p", "a", "g", "e", "P",
        "r", "o", "p", "s", "\"", ":", "{", "\"", "d", "a", "t", "a", "\"", ":", "{", "\"", "v",
        "o", "d", "\"", ":", "{", "\"", "i", "t", "e", "m", "V", "c", "m", "I", "d", "\"", ":",
        "\"", "v", "\"", ",", "\"", "g", "a", "l", "l", "e", "r", "y", "C", "h", "a", "n", "n",
        "e", "l", "I", "d", "\"", ":", "\"", "\"", ",", "\"", "c", "h", "a", "n", "n", "e", "l",
        "I", "d", "\"", ":", "\"", "c", "\"", "}", "}", "}", "}", "}">>)

\* {"props":{"pageProps":{"data":{"vod":{"itemVcmId":"v","galleryChannelId":"g"}}}}}
DOC_VOD_MISSING_ID ==
    T(<<"{", "\"", "p", "r", "o", "p", "s", "\"", ":", "{", "\"", "p", "a", "g", "e", "P",
        "r", "o", "p", "s", "\"", ":", "{", "\"", "d", "a", "t", "a", "\"", ":", "{", "\"", "v",
        "o", "d", "\"", ":", "{", "\"", "i", "t", "e", "m", "V", "c", "m", "I", "d", "\"", ":",
        "\"", "v", "\"", ",", "\"", "g", "a", "l", "l", "e", "r", "y", "C", "h", "a", "n", "n",
        "e", "l", "I", "d", "\"", ":", "\"", "g", "\"", "}", "}", "}", "}", "}">>)

\* {"props":null}
DOC_PROPS_NULL ==
    T(<<"{", "\"", "p", "r", "o", "p", "s", "\"", ":", "n", "u", "l", "l", "}">>)

\* line 141: 'TVSeason'
TV_SEASON ==
    T(<<"T", "V", "S", "e", "a", "s", "o", "n">>)

\* {"@type":"TVSeries","name":"S"}
LD_SERIES ==
    T(<<"{", "\"", "@", "t", "y", "p", "e", "\"", ":", "\"", "T", "V", "S", "e", "r", "i",
        "e", "s", "\"", ",", "\"", "n", "a", "m", "e", "\"", ":", "\"", "S", "\"", "}">>)

\* {"@type":"TVSeason","name":"S1","partOfTVSeries":{"name":"P"}}
LD_SEASON ==
    T(<<"{", "\"", "@", "t", "y", "p", "e", "\"", ":", "\"", "T", "V", "S", "e", "a", "s",
        "o", "n", "\"", ",", "\"", "n", "a", "m", "e", "\"", ":", "\"", "S", "1", "\"", ",",
        "\"", "p", "a", "r", "t", "O", "f", "T", "V", "S", "e", "r", "i", "e", "s", "\"", ":",
        "{", "\"", "n", "a", "m", "e", "\"", ":", "\"", "P", "\"", "}", "}">>)

\* {"name":"S","containsSeason":[{},{}]}
LD_TWO_SEASONS ==
    T(<<"{", "\"", "n", "a", "m", "e", "\"", ":", "\"", "S", "\"", ",", "\"", "c", "o", "n",
        "t", "a", "i", "n", "s", "S", "e", "a", "s", "o", "n", "\"", ":", "[", "{", "}", ",",
        "{", "}", "]", "}">>)

\* {"@type":"TVSeries"}
LD_NO_NAME ==
    T(<<"{", "\"", "@", "t", "y", "p", "e", "\"", ":", "\"", "T", "V", "S", "e", "r", "i",
        "e", "s", "\"", "}">>)

\* the documents above with the value json.loads gives each
JsonDocs ==
    <<[text |-> DOC_EMPTY_OBJECT,
       value |-> EmptyDict],
      [text |-> DOC_ARRAY,
       value |-> JList(<< >>)],
      [text |-> DOC_MEDIA_PLAIN,
       value |-> JDict([media |-> JList(<<JDict([url |-> JStr(URL_PLAIN)])>>)])],
      [text |-> DOC_MEDIA_QUERY,
       value |-> JDict([media |-> JList(<<JDict([url |-> JStr(URL_QUERY)])>>)])],
      [text |-> DOC_MEDIA_FRAG,
       value |-> JDict([media |-> JList(<<JDict([url |-> JStr(URL_FRAG)])>>)])],
      [text |-> DOC_MEDIA_TWO,
       value |-> JDict([media |-> JList(<<JDict([url |-> JStr(URL_PLAIN)]),
                 JDict([url |-> JStr(URL_QUERY)])>>)])],
      [text |-> DOC_MEDIA_NONE,
       value |-> JDict([media |-> JList(<< >>)])],
      [text |-> DOC_MEDIA_NO_URL,
       value |-> JDict([media |-> JList(<<EmptyDict>>)])],
      [text |-> DOC_MEDIA_EMPTY_URL,
       value |-> JDict([media |-> JList(<<JDict([url |-> JStr(<< >>)])>>)])],
      [text |-> DOC_MEDIA_NOT_DICT,
       value |-> JDict([media |-> JList(<<JStr(T(<<"x">>))>>)])],
      [text |-> DOC_MEDIA_NUM_URL,
       value |-> JDict([media |-> JList(<<JDict([url |-> JNum(5)])>>)])],
      [text |-> DOC_TICKET_A,
       value |-> JDict([tickets |-> JList(<<JDict([ticket |-> JStr(TICKET_A)])>>)])],
      [text |-> DOC_TICKET_TWO,
       value |-> JDict([tickets |-> JList(<<JDict([ticket |-> JStr(TICKET_B)]),
                 JDict([ticket |-> JStr(TICKET_A)])>>)])],
      [text |-> DOC_TICKETS_NONE,
       value |-> JDict([tickets |-> JList(<< >>)])],
      [text |-> DOC_TICKETS_NULL,
       value |-> JDict([tickets |-> JNull])],
      [text |-> DOC_TICKET_MISSING,
       value |-> JDict([tickets |-> JList(<<EmptyDict>>)])],
      [text |-> DOC_TICKET_EMPTY,
       value |-> JDict([tickets |-> JList(<<JDict([ticket |-> JStr(<< >>)])>>)])],
      [text |-> DOC_TICKET_NOT_DICT,
       value |-> JDict([tickets |-> JList(<<JStr(T(<<"x">>))>>)])],
      [text |-> DOC_VOD_FULL,
       value |-> JDict([props |-> JDict([pageProps |-> JDict([data |-> JDict([vod |-> JDict([itemVcmId |-> JStr(T(<<"v">>)),
                 galleryChannelId |-> JStr(T(<<"g">>)), channelId |-> JStr(T(<<"c">>))])])])])])],
      [text |-> DOC_VOD_FULL_B,
       value |-> JDict([props |-> JDict([pageProps |-> JDict([data |-> JDict([vod |-> JDict([itemVcmId |-> JStr(T(<<"w">>)),
                 galleryChannelId |-> JStr(T(<<"g">>)), channelId |-> JStr(T(<<"c">>))])])])])])],
      [text |-> DOC_VOD_EMPTY_ID,
       value |-> JDict([props |-> JDict([pageProps |-> JDict([data |-> JDict([vod |-> JDict([itemVcmId |-> JStr(T(<<"v">>)),
                 galleryChannelId |-> JStr(<< >>), channelId |-> JStr(T(<<"c">>))])])])])])],
      [text |-> DOC_VOD_MISSING_ID,
       value |-> JDict([props |-> JDict([pageProps |-> JDict([data |-> JDict([vod |-> JDict([itemVcmId |-> JStr(T(<<"v">>)),
                 galleryChannelId |-> JStr(T(<<"g">>))])])])])])],
      [text |-> DOC_PROPS_NULL,
       value |-> JDict([props |-> JNull])],
      [text |-> LD_SERIES,
       value |-> JDict(("@type" :> JStr(T(<<"T", "V", "S", "e", "r", "i", "e",
                 "s">>))) @@ [name |-> JStr(T(<<"S">>))])],
      [text |-> LD_SEASON,
       value |-> JDict(("@type" :> JStr(TV_SEASON)) @@ [name |-> JStr(T(<<"S", "1">>)),
                 partOfTVSeries |-> JDict([name |-> JStr(T(<<"P">>))])])],
      [text |-> LD_TWO_SEASONS,
       value |-> JDict([name |-> JStr(T(<<"S">>)), containsSeason |-> JList(<<EmptyDict,
                 EmptyDict>>)])],
      [text |-> LD_NO_NAME,
       value |-> JDict(("@type" :> JStr(T(<<"T", "V", "S", "e", "r", "i", "e",
                 "s">>))) @@ [k \in {} |-> JNull])]>>

\* json.loads(text): None stands for json.JSONDecodeError, raised for every
\* text that is not one of the documents
json_loads(text) ==
    IF \E i \in DOMAIN JsonDocs : JsonDocs[i].text = text
    THEN Some(JsonDocs[CHOOSE i \in DOMAIN JsonDocs : JsonDocs[i].text = text].value)
    ELSE None

\* ------------------------------------------------------------------------
\* Playback resolver: request, get_episode_details, get_video_url
\* ------------------------------------------------------------------------
VARIABLES
    rpc,            \* position in get_video_url
    details,        \* get_episode_details' result: None or the identifiers
    hls_url,        \* None until the playlist stage yields the media url
    video_url,      \* get_video_url's return value once rpc = "done"
    raised,         \* whether an exception left get_video_url
    requests_sent,  \* the stages whose request reached request(), in order
    resp_detail,    \* what request() returned at each stage
    resp_playlist,
    resp_entitlement

resolver_vars ==
    <<rpc, details, hls_url, video_url, raised, requests_sent, resp_detail,
      resp_playlist, resp_entitlement>>

\* extract_content(url, content_type) and the show-name batch it runs
VARIABLES
    content_type,      \* 'shows', 'seasons' or 'episodes'
    page_url,          \* the url argument
    selector_matches,  \* the nodes each candidate selector matches in the page
    args,              \* parse_args(): skip_name_fetch and max_shows
    cache_file,        \* the cache file when the run starts: None, or its document
    disk,              \* the cache file as the run has left it
    now,               \* time.time(), in seconds
    xpc,               \* position in extract_content
    elements,          \* the nodes of the active selector
    position,          \* the element the loop of line 254 is at
    items,             \* the items accepted so far; the result once xpc = "done"
    seen,              \* the identity keys of the accepted items
    cache,             \* the loaded cache document
    cache_is_fresh,
    to_fetch,          \* line 318, as positions in items
    shows_to_process,  \* line 170, as positions in items
    show_i,            \* the show the loop of line 179 is at
    name_fetches,      \* the show pages requested, in order
    interrupted        \* whether KeyboardInterrupt ended the batch

extract_vars ==
    <<content_type, page_url, selector_matches, args, cache_file, disk, now, xpc,
      elements, position, items, seen, cache, cache_is_fresh, to_fetch, shows_to_process,
      show_i, name_fetches, interrupted>>

\* save_cache(cache) step by step, on the files of the cache directory
VARIABLES
    save_pc,        \* position in save_cache
    cache_arg,      \* the cache document save_cache is given
    temp_file,      \* line 110: the temporary file's path, None until assigned
    files,          \* the files of the cache directory: their text, by path
    target_before   \* the cache file's text when save_cache is called, or None

save_vars == <<save_pc, cache_arg, temp_file, files, target_before>>

\* save_cache has not been called
SaveIdle ==
    /\ save_pc = "idle"
    /\ cache_arg = [timestamp |-> 0, shows |-> << >>]
    /\ temp_file = << >>
    /\ files = << >>
    /\ target_before = << >>

\* crypto_op applied to a text and to what it gave
VARIABLES
    crypto_pc,      \* "idle", "start", "encrypted" or "decrypted"
    plaintext,      \* the str given to crypto_op(_, 'encrypt', keyset)
    keyset,         \* 'playlist' or 'entitlement'
    ciphertext,     \* what the encrypt operation returned, None if nothing yet
    decrypted_text  \* what the decrypt operation returned, None if nothing yet

crypto_vars == <<crypto_pc, plaintext, keyset, ciphertext, decrypted_text>>

\* crypto_op has not been called
CryptoIdle ==
    /\ crypto_pc = "idle"
    /\ plaintext = << >>
    /\ keyset = "playlist"
    /\ ciphertext = << >>
    /\ decrypted_text = << >>

\* request() call after call, as the network sees it
VARIABLES
    request_pc,     \* position in request(): "idle", "start", "slept", "retry", "returned"
    http_method,    \* the method of the call
    network,        \* what happened so far, in order: "sleep" or "attempt"
    retries_left,   \* the retries the adapter still has for the call
    returned,       \* what the call returned, None for None
    calls           \* the calls of request() so far

request_vars == <<request_pc, http_method, network, retries_left, returned, calls>>

\* request() has not been called
RequestIdle ==
    /\ request_pc = "idle"
    /\ http_method = "GET"
    /\ network = << >>
    /\ retries_left = 0
    /\ returned = << >>
    /\ calls = 0

\* main(), as the calls it makes
VARIABLES
    main_pc,         \* position in main()
    update_mode,     \* args.update_mode
    main_calls,      \* the calls of extract_content and get_video_url, with results
    chosen_show,     \* what select_item returned for the shows, None for None
    chosen_season,   \* the same for the seasons
    chosen_episode,  \* the same for the episodes
    main_end         \* how main() ended: "running", "returned" or "caught"

main_vars ==
    <<main_pc, update_mode, main_calls, chosen_show, chosen_season, chosen_episode,
      main_end>>

\* main() has not been called
MainIdle ==
    /\ main_pc = "idle"
    /\ update_mode = FALSE
    /\ main_calls = << >>
    /\ chosen_show = << >>
    /\ chosen_season = << >>
    /\ chosen_episode = << >>
    /\ main_end = "running"

\* the runs of the program over one cache file
VARIABLES
    run             \* the number of the run under way, 0 when runs are not counted

runs_vars == <<run>>

\* one call of extract_content on its own
RunsIdle == run = 0

\* the variables each operation leaves alone
outside_resolver == <<extract_vars, save_vars, crypto_vars, request_vars, main_vars, runs_vars>>

outside_extract == <<resolver_vars, save_vars, crypto_vars, request_vars, main_vars, runs_vars>>

outside_save == <<resolver_vars, extract_vars, crypto_vars, request_vars, main_vars, runs_vars>>

outside_crypto == <<resolver_vars, extract_vars, save_vars, request_vars, main_vars, runs_vars>>

outside_request == <<resolver_vars, extract_vars, save_vars, crypto_vars, main_vars, runs_vars>>

outside_main == <<resolver_vars, extract_vars, save_vars, crypto_vars, request_vars, runs_vars>>

outside_runs == <<resolver_vars, extract_vars, save_vars, crypto_vars, request_vars, main_vars>>

\* What the session does with one call of request(): the connection fails
\* or times out after the adapter's retries, or a response arrives with a
\* status and a body.
Outcome(kind, status, body) == [kind |-> kind, status |-> status, body |-> body]

TransportFailures == {Outcome("error", 0, None), Outcome("timeout", 0, None)}

\* request() without the raise_for_status of line 65
request_ignoring_status(outcome) ==
    IF outcome.kind = "response" THEN outcome.body ELSE None

\* lines 52-69: request().  raise_for_status raises for a status of 400 or
\* more, and every exception returns None.
request(outcome) ==
    IF outcome.kind = "response" /\ outcome.status < 400 THEN outcome.body ELSE None

\* an episode page as BeautifulSoup sees it: whether it holds the script
\* tag with id __NEXT_DATA__, and that tag's .string (None when it has none)
Page(has_script, string) == [has_script |-> has_script, string |-> string]

DetailPages ==
    {Page(FALSE, None), Page(TRUE, None)} \cup
    {Page(TRUE, Some(d)) :
        d \in {DOC_VOD_FULL, DOC_VOD_FULL_B, DOC_VOD_EMPTY_ID, DOC_VOD_MISSING_ID,
               DOC_PROPS_NULL, DOC_EMPTY_OBJECT, DOC_ARRAY, NOT_JSON}}

\* the outcomes of the GET of the episode page
DetailOutcomes ==
    TransportFailures
    \cup {Outcome("response", 404, Some(Page(FALSE, None)))}
    \cup {Outcome("response", 200, Some(p)) : p \in DetailPages}

\* x.get(k, {}) along keys: any .get on a value that is no dict raises
\* AttributeError, for which None stands
RECURSIVE GetPath(_, _)
GetPath(j, keys) ==
    IF Len(keys) = 0 THEN Some(j)
    ELSE IF ~IsDict(j) THEN None
    ELSE GetPath(DictGet(j, Head(keys), EmptyDict), Tail(keys))

\* lines 343-349: the three identifiers of vod, or None when one is empty
VodDetails(vod) ==
    Bind([vcmid |-> DictGet(vod, "itemVcmId", JNull),
          galleryChannelId |-> DictGet(vod, "galleryChannelId", JNull),
          videoChannelId |-> DictGet(vod, "channelId", JNull)], LAMBDA d :
        IF \A k \in DOMAIN d : Truthy(d[k]) THEN Some(d) ELSE None)

\* get_episode_details, given what request() returned: every exception of
\* lines 340-349 is caught and returns None
get_episode_details(resp) ==
    IF IsNone(resp) THEN None
    ELSE IF ~Get(resp).has_script THEN None
    ELSE IF IsNone(Get(resp).string) THEN None
    ELSE Bind(json_loads(Get(Get(resp).string)), LAMBDA data :
            IF IsNone(data) THEN None
            ELSE Bind(GetPath(Get(data), <<"props", "pageProps", "data", "vod">>),
                      LAMBDA vod :
                    IF IsNone(vod) \/ ~IsDict(Get(vod)) THEN None
                    ELSE VodDetails(Get(vod))))

\* where a block of get_video_url's try body ends: it returns v, goes on
\* with v, or raises
Return(v) == [kind |-> "return", v |-> v]

Continue(v) == [kind |-> "continue", v |-> v]

Raise == [kind |-> "raise", v |-> None]

\* urlsplit of a url: scheme, netloc, path and whether '?' or '#' ends the path
UrlCut(s, stops) ==
    IF \E i \in DOMAIN s : s[i] \in stops
    THEN (CHOOSE i \in DOMAIN s : s[i] \in stops /\ \A k \in 1..(i - 1) : s[k] \notin stops) - 1
    ELSE Len(s)

IsSchemeChar(c) == IsDigit(c) \/ IsUpper(c) \/ IsLower(c) \/ c \in {Ord("+"), Ord("-"), Ord(".")}

UrlScheme(url) ==
    LET n == UrlCut(url, {Ord(":")})
    IN IF n < Len(url) /\ n >= 1 /\ (IsUpper(url[1]) \/ IsLower(url[1]))
          /\ \A k \in 1..n : IsSchemeChar(url[k])
       THEN Take(url, n) ELSE << >>

UrlAfterScheme(url) ==
    IF Len(UrlScheme(url)) > 0 THEN Drop(url, Len(UrlScheme(url)) + 1) ELSE url

UrlNetloc(url) ==
    LET rest == UrlAfterScheme(url)
    IN IF StartsAt(rest, 1, <<Ord("/"), Ord("/")>>)
       THEN Take(Drop(rest, 2), UrlCut(Drop(rest, 2), {Ord("/"), Ord("?"), Ord("#")}))
       ELSE << >>

UrlHasNetloc(url) == StartsAt(UrlAfterScheme(url), 1, <<Ord("/"), Ord("/")>>)

UrlAfterNetloc(url) ==
    IF UrlHasNetloc(url)
    THEN Drop(UrlAfterScheme(url), 2 + Len(UrlNetloc(url)))
    ELSE UrlAfterScheme(url)

\* urlparse(url).path
UrlPath(url) ==
    Take(UrlAfterNetloc(url), UrlCut(UrlAfterNetloc(url), {Ord("?"), Ord("#")}))

\* json.dumps({"lp": lp, "rv": "AKAMAI"}, separators=(',', ':')), for an lp
\* that needs no escaping
EntitlementPayload(lp) ==
    T(<<"{", "\"", "l", "p", "\"", ":", "\"">>) \o lp
    \o T(<<"\"", ",", "\"", "r", "v", "\"", ":", "\"", "A", "K", "A", "M", "A", "I", "\"", "}">>)

\* line 373: media[0].get('url') if media and isinstance(media[0], dict)
\* else None; indexing a non-empty dict or a number raises
FirstMediaUrl(media) ==
    IF ~Truthy(media) THEN Continue(JNull)
    ELSE IF media.t \in {"dict", "num"} THEN Raise
    ELSE IF media.t = "list" /\ IsDict(media.v[1])
    THEN Continue(DictGet(media.v[1], "url", JNull))
    ELSE Continue(JNull)

\* lines 371-377: from the decrypted playlist text to the media url; a url
\* that is no str makes urlparse raise
PlaylistUrl(decrypted) ==
    Bind(json_loads(decrypted), LAMBDA data :
        IF IsNone(data) THEN Raise
        ELSE IF ~IsDict(Get(data)) THEN Raise
        ELSE Bind(FirstMediaUrl(DictGet(Get(data), "media", JList(<< >>))), LAMBDA url :
                IF url.kind = "raise" THEN Raise
                ELSE IF ~Truthy(url.v) THEN Return(None)
                ELSE IF url.v.t # "str" THEN Raise
                ELSE Continue(Some(url.v.v))))

\* lines 368-374: the playlist body to its first media url
PlaylistBody(text) ==
    Bind(crypto_op(Strip(text), "decrypt", "playlist"), LAMBDA decrypted :
        IF IsNone(decrypted) \/ Len(Get(decrypted)) = 0 THEN Return(None)
        ELSE PlaylistUrl(Get(decrypted)))

\* the ticket appended with '?' whatever the url holds
AppendTicketWithQuestionMark(url, ticket) == url \o <<Ord("?")>> \o ticket

\* lines 392-393: the playlist url with the ticket appended
AppendTicket(url, ticket) ==
    url \o (IF Ord("?") \in Range(url) THEN <<Ord("&")>> ELSE <<Ord("?")>>) \o ticket

\* lines 390-394: the url returned for the tickets of the response; the
\* documents hold str tickets only
TicketAssembly(url, tickets) ==
    IF ~Truthy(tickets) THEN Return(Some(url))
    ELSE IF tickets.t \in {"dict", "num"} THEN Raise
    ELSE IF ~(tickets.t = "list" /\ IsDict(tickets.v[1])) THEN Return(Some(url))
    ELSE IF Truthy(DictGet(tickets.v[1], "ticket", JNull))
    THEN Return(Some(AppendTicket(url, DictGet(tickets.v[1], "ticket", JNull).v)))
    ELSE Return(Some(url))

\* lines 384-394: from the entitlement response to the returned url
EntitlementBody(url, resp) ==
    IF IsNone(resp) THEN Return(Some(url))
    ELSE Bind(crypto_op(Strip(Get(resp)), "decrypt", "entitlement"), LAMBDA decrypted :
            IF IsNone(decrypted) \/ Len(Get(decrypted)) = 0 THEN Return(Some(url))
            ELSE Bind(json_loads(Get(decrypted)), LAMBDA data :
                    IF IsNone(data) THEN Raise
                    ELSE IF ~IsDict(Get(data)) THEN Raise
                    ELSE TicketAssembly(url, DictGet(Get(data), "tickets", JList(<< >>)))))

\* the try body without its except clause
ExceptMissing(outcome) == outcome

\* lines 396-398: an exception raised in the try body returns None
ExceptReturnNone(outcome) ==
    IF outcome.kind = "raise" THEN Return(None) ELSE outcome

\* the ciphertext a server holding the keyset sends for a plaintext
Encrypted(text, type) == Get(crypto_op(text, "encrypt", type))

\* the body texts the playlist endpoint can answer with
PlaylistBodies ==
    {<< >>, T(<<" ", " ">>), NOT_BASE64} \cup
    {Encrypted(d, "playlist") :
        d \in {DOC_MEDIA_PLAIN, DOC_MEDIA_QUERY, DOC_MEDIA_FRAG, DOC_MEDIA_TWO,
               DOC_MEDIA_NONE, DOC_MEDIA_NO_URL, DOC_MEDIA_EMPTY_URL,
               DOC_MEDIA_NOT_DICT, DOC_MEDIA_NUM_URL, DOC_EMPTY_OBJECT, DOC_ARRAY,
               NOT_JSON, << >>}} \cup
    {T(<<" ">>) \o Encrypted(DOC_MEDIA_QUERY, "playlist") \o T(<<" ">>),
     Encrypted(DOC_MEDIA_PLAIN, "entitlement")}

PlaylistOutcomes ==
    TransportFailures
    \cup {Outcome("response", 500, Some(<< >>))}
    \cup {Outcome("response", 200, Some(b)) : b \in PlaylistBodies}

\* the body texts the entitlement endpoint can answer with
EntitlementBodies ==
    {<< >>, NOT_BASE64} \cup
    {Encrypted(d, "entitlement") :
        d \in {DOC_TICKET_A, DOC_TICKET_TWO, DOC_TICKETS_NONE, DOC_TICKETS_NULL,
               DOC_TICKET_MISSING, DOC_TICKET_EMPTY, DOC_TICKET_NOT_DICT,
               DOC_EMPTY_OBJECT, DOC_ARRAY, NOT_JSON, << >>}} \cup
    {Encrypted(DOC_TICKET_A, "entitlement") \o T(<<" ">>),
     Encrypted(DOC_TICKET_A, "playlist")}

EntitlementOutcomes ==
    TransportFailures
    \cup {Outcome("response", 403, Some(Encrypted(DOC_TICKET_A, "entitlement")))}
    \cup {Outcome("response", 200, Some(b)) : b \in EntitlementBodies}

\* one call of request(): the stage, the method, the POST body and what the
\* session did with it
Sent(stage, method, data, outcome) ==
    [stage |-> stage, method |-> method, data |-> data, kind |-> outcome.kind,
     status |-> outcome.status]

ResolverInit ==
    /\ rpc = "start"
    /\ details = None
    /\ hls_url = None
    /\ video_url = None
    /\ raised = FALSE
    /\ requests_sent = << >>
    /\ resp_detail = None
    /\ resp_playlist = None
    /\ resp_entitlement = None

\* get_video_url leaves with an outcome of its try body
Leave(outcome) ==
    /\ rpc' = "done"
    /\ raised' = (outcome.kind = "raise")
    /\ video_url' = IF outcome.kind = "return" THEN outcome.v ELSE None

\* lines 355-356: the detail fetch
DetailStage ==
    /\ rpc = "start"
    /\ \E outcome \in DetailOutcomes :
        LET resp == request(outcome)
        IN /\ resp_detail' = resp
           /\ requests_sent' = Append(requests_sent, Sent("detail", "GET", None, outcome))
           /\ details' = get_episode_details(resp)
           /\ IF IsNone(get_episode_details(resp))
              THEN Leave(Return(None))
              ELSE rpc' = "playlist" /\ UNCHANGED <<video_url, raised>>
    /\ UNCHANGED <<outside_resolver, hls_url, resp_playlist, resp_entitlement>>

\* lines 358-374: the playlist GET, decrypt and parse
PlaylistStage ==
    /\ rpc = "playlist"
    /\ \E outcome \in PlaylistOutcomes :
        LET resp == request(outcome)
        IN /\ resp_playlist' = resp
           /\ requests_sent' = Append(requests_sent, Sent("playlist", "GET", None, outcome))
           /\ IF IsNone(resp) \/ Len(Strip(Get(resp))) = 0
              THEN Leave(Return(None)) /\ UNCHANGED hls_url
              ELSE LET body == ExceptReturnNone(PlaylistBody(Get(resp)))
                   IN IF body.kind = "continue"
                      THEN /\ hls_url' = body.v
                           /\ rpc' = "entitlement"
                           /\ UNCHANGED <<video_url, raised>>
                      ELSE Leave(body) /\ UNCHANGED hls_url
    /\ UNCHANGED <<outside_resolver, details, resp_detail, resp_entitlement>>

\* lines 376-394: the entitlement POST, decrypt, parse and ticket assembly
EntitlementStage ==
    /\ rpc = "entitlement"
    /\ \E outcome \in EntitlementOutcomes :
        LET resp == request(outcome)
            encrypted == crypto_op(EntitlementPayload(UrlPath(Get(hls_url))),
                                   "encrypt", "entitlement")
        IN /\ resp_entitlement' = resp
           /\ requests_sent' =
                 Append(requests_sent, Sent("entitlement", "POST", encrypted, outcome))
           /\ Leave(ExceptReturnNone(EntitlementBody(Get(hls_url), resp)))
    /\ UNCHANGED <<outside_resolver, details, hls_url, resp_detail, resp_playlist>>

ResolverNext == DetailStage \/ PlaylistStage \/ EntitlementStage

vars == <<resolver_vars, extract_vars, save_vars, crypto_vars, request_vars, main_vars, runs_vars>>

\* ------------------------------------------------------------------------
\* Content extraction: extract_content and the patterns it matches
\* ------------------------------------------------------------------------
\* line 18: https://www.mako.co.il
BASE_URL ==
    T(<<"h", "t", "t", "p", "s", ":", "/", "/", "w", "w", "w", ".", "m", "a", "k", "o", ".",
        "c", "o", ".", "i", "l">>)

\* line 278: the placeholder name 'Unknown Show'
UNKNOWN_SHOW ==
    T(<<"U", "n", "k", "n", "o", "w", "n", " ", "S", "h", "o", "w">>)

\* the literal parts of the pattern /VOD-([\w-]+)\.htm of line 238
VOD_PREFIX ==
    T(<<"/", "V", "O", "D", "-">>)

HTM_SUFFIX ==
    T(<<".", "h", "t", "m">>)

\* the two names of the pattern [?&](guid|videoGuid)=([\w-]+) of line 286,
\* lower-cased, each with its '='
GUID_PARAM ==
    T(<<"g", "u", "i", "d", "=">>)

VIDEOGUID_PARAM ==
    T(<<"v", "i", "d", "e", "o", "g", "u", "i", "d", "=">>)

\* the length of the longest run of [\w-] characters of s that starts at j
RunLength(s, j) ==
    CHOOSE n \in 0..(Len(s) - j + 1) :
        /\ \A k \in 0..(n - 1) : IsWordOrDash(s[j + k])
        /\ j + n > Len(s) \/ ~IsWordOrDash(s[j + n])

\* /VOD-([\w-]+)\.htm matches s at i.  The group is the whole run: the
\* character after it must be '.', which is not in the class.
VodMatchAt(s, i) ==
    /\ StartsAt(s, i, VOD_PREFIX)
    /\ RunLength(s, i + Len(VOD_PREFIX)) >= 1
    /\ StartsAt(s, i + Len(VOD_PREFIX) + RunLength(s, i + Len(VOD_PREFIX)), HTM_SUFFIX)

\* re.search(r'/VOD-([\w-]+)\.htm', s): group(1) of the leftmost match, or
\* None
SearchVodGuid(s) ==
    Bind({i \in DOMAIN s : VodMatchAt(s, i)}, LAMBDA at :
        IF at = {} THEN None
        ELSE Bind(CHOOSE i \in at : \A k \in at : i <= k, LAMBDA i :
                Some(SubSeq(s, i + Len(VOD_PREFIX),
                            i + Len(VOD_PREFIX) + RunLength(s, i + Len(VOD_PREFIX)) - 1))))

\* where the value of a guid or videoGuid parameter starts when the pattern
\* [?&](guid|videoGuid)=([\w-]+), ignoring case, matches s at i; 0 otherwise
QueryGuidValueAt(s, i) ==
    IF ~(s[i] \in {Ord("?"), Ord("&")}) THEN 0
    ELSE IF StartsAt(LowerText(s), i + 1, GUID_PARAM)
            /\ RunLength(s, i + 1 + Len(GUID_PARAM)) >= 1
    THEN i + 1 + Len(GUID_PARAM)
    ELSE IF StartsAt(LowerText(s), i + 1, VIDEOGUID_PARAM)
            /\ RunLength(s, i + 1 + Len(VIDEOGUID_PARAM)) >= 1
    THEN i + 1 + Len(VIDEOGUID_PARAM)
    ELSE 0

\* re.search(r'[?&](guid|videoGuid)=([\w-]+)', s, re.I): group(2) of the
\* leftmost match, or None
SearchQueryGuid(s) ==
    Bind({i \in DOMAIN s : QueryGuidValueAt(s, i) > 0}, LAMBDA at :
        IF at = {} THEN None
        ELSE Bind(QueryGuidValueAt(s, CHOOSE i \in at : \A k \in at : i <= k), LAMBDA j :
                Some(SubSeq(s, j, j + RunLength(s, j) - 1))))

\* urljoin(base, ref) for a base with scheme and netloc and a ref without
\* dot segments: an absolute ref stays, a ref starting with '/' replaces the
\* base's path, a ref starting with '?' replaces its query, any other ref
\* replaces the last segment of its path
UrlOrigin(url) == UrlScheme(url) \o T(<<":", "/", "/">>) \o UrlNetloc(url)

UrlDirectory(path) ==
    IF \E i \in DOMAIN path : path[i] = Ord("/")
    THEN Take(path, CHOOSE i \in DOMAIN path :
                        path[i] = Ord("/") /\ \A k \in (i + 1)..Len(path) : path[k] # Ord("/"))
    ELSE T(<<"/">>)

urljoin(base, ref) ==
    IF Len(ref) = 0 THEN base
    ELSE IF Len(UrlScheme(ref)) > 0 THEN ref
    ELSE IF StartsAt(ref, 1, T(<<"/", "/">>)) THEN UrlScheme(base) \o T(<<":">>) \o ref
    ELSE IF ref[1] = Ord("/") THEN UrlOrigin(base) \o ref
    ELSE IF ref[1] = Ord("?") THEN UrlOrigin(base) \o UrlPath(base) \o ref
    ELSE UrlOrigin(base) \o UrlDirectory(UrlPath(base)) \o ref

\* lines 224-241: configs.  A field rule names whether the value comes from
\* a nested element (selector), from which attribute (none: the text), and
\* whether a pattern is declared.
FieldRule(field, nested, attribute, regex) ==
    [field |-> field, nested |-> nested, attribute |-> attribute, regex |-> regex]

Fields(ctype) ==
    IF ctype = "shows"
    THEN <<FieldRule("url", FALSE, "href", FALSE), FieldRule("temp_name", TRUE, "alt", FALSE)>>
    ELSE IF ctype = "seasons"
    THEN <<FieldRule("name", TRUE, "", FALSE), FieldRule("url", FALSE, "href", FALSE)>>
    ELSE <<FieldRule("name", TRUE, "", FALSE), FieldRule("url", FALSE, "href", FALSE),
           FieldRule("guid", FALSE, "href", TRUE)>>

\* the number of candidate selectors of each content type
SelectorCount(ctype) ==
    IF ctype = "shows" THEN 2 ELSE IF ctype = "seasons" THEN 1 ELSE 4

Base(ctype, url) == IF ctype = "shows" THEN BASE_URL ELSE url

\* A matched <a> element: its href attribute ('' when it has none) and its
\* nested element, None when the nested selector matches nothing, else the
\* nested element's alt attribute (shows, '' when it has none) or text.
Node(href, nested) == [href |-> href, nested |-> nested]

\* an item under construction: each field None until a value is stored
EmptyItem == [url |-> None, name |-> None, guid |-> None, temp_name |-> None]

ItemSize(item) == Cardinality({f \in DOMAIN item : ~IsNone(item[f])})

\* lines 257-272: the value one field rule stores for an element, None when
\* it stores nothing
FieldValue(rule, elem, base) ==
    IF rule.nested /\ IsNone(elem.nested) THEN None
    ELSE Bind(IF rule.attribute = "href" THEN elem.href
              ELSE IF rule.attribute = "alt" THEN Get(elem.nested)
              ELSE Strip(Get(elem.nested)), LAMBDA raw :
            Bind(IF Len(raw) > 0 /\ rule.regex /\ rule.field = "guid"
                    /\ ~IsNone(SearchVodGuid(raw))
                 THEN Get(SearchVodGuid(raw)) ELSE raw, LAMBDA matched :
                Bind(IF Len(matched) > 0 /\ rule.field = "url"
                     THEN urljoin(base, matched) ELSE matched, LAMBDA value :
                    IF Len(value) > 0 THEN Some(value) ELSE None)))

\* lines 255-272: the item built from an element
BuildItem(ctype, elem, base) ==
    [f \in DOMAIN EmptyItem |->
        IF \E k \in DOMAIN Fields(ctype) : Fields(ctype)[k].field = f
        THEN FieldValue(Fields(ctype)[CHOOSE k \in DOMAIN Fields(ctype) :
                                                Fields(ctype)[k].field = f],
                        elem, base)
        ELSE None]

\* the relaxation of shows given to every content type
AcceptedWithUrl(ctype, item) == ~IsNone(item.url)

\* line 274: the acceptance rule
Accepted(ctype, item) ==
    \/ ItemSize(item) = Len(Fields(ctype))
    \/ ctype = "shows" /\ ~IsNone(item.url)

\* the url alone as the key
UrlAsKey(item) == IF ~IsNone(item.url) THEN Get(item.url) ELSE << >>

\* line 275: item.get('guid', item.get('url', ''))
ItemKey(item) ==
    IF ~IsNone(item.guid) THEN Get(item.guid)
    ELSE IF ~IsNone(item.url) THEN Get(item.url)
    ELSE << >>

\* line 278: a show's temp_name becomes its name, 'Unknown Show' when absent
WithTemporaryName(item) ==
    [item EXCEPT !.name = IF IsNone(item.temp_name) THEN Some(UNKNOWN_SHOW)
                          ELSE item.temp_name,
                 !.temp_name = None]

\* lines 284-287: an episode without guid takes it from its url's query
WithQueryGuid(ep) ==
    IF IsNone(ep.guid) /\ ~IsNone(ep.url) /\ ~IsNone(SearchQueryGuid(Get(ep.url)))
    THEN [ep EXCEPT !.guid = SearchQueryGuid(Get(ep.url))]
    ELSE ep

\* line 288
HasGuid(ep) == ~IsNone(ep.guid)

\* lines 283-288: the post-pass for episodes
EpisodesPostPass(eps) == SelectSeq([i \in DOMAIN eps |-> WithQueryGuid(eps[i])], HasGuid)

\* every selector's matches, one selector after the other
RECURSIVE MergeAllSelectors(_)
MergeAllSelectors(matches) ==
    IF matches = << >> THEN << >>
    ELSE Head(matches) \o MergeAllSelectors(Tail(matches))

\* lines 247-249: the matches of the first selector that matches a node, the
\* last selector's (none) when no selector does
SelectElements(matches) ==
    IF \E k \in DOMAIN matches : Len(matches[k]) > 0
    THEN matches[CHOOSE k \in DOMAIN matches :
                    Len(matches[k]) > 0 /\ \A l \in 1..(k - 1) : Len(matches[l]) = 0]
    ELSE << >>

\* ------------------------------------------------------------------------
\* Show-name cache policy: load_cache, save_cache, extract_show_name,
\* process_show_names
\* ------------------------------------------------------------------------
\* line 32
CACHE_TTL == 30 * 24 * 60 * 60

\* line 33
DELAY_BETWEEN_REQUESTS == 1

Day == 24 * 60 * 60

\* time.sleep(DELAY_BETWEEN_REQUESTS + random.uniform(0.5, 1.5)) of line 54,
\* in whole seconds: the jitter is taken as one second
RequestSeconds == DELAY_BETWEEN_REQUESTS + 1

\* a NameCache document: its timestamp and its names by show url
Cache(timestamp, shows) == [timestamp |-> timestamp, shows |-> shows]

NoNames == [u \in {} |-> << >>]

\* lines 95-103: load_cache, given the cache file (None: there is none)
load_cache(file, time) == IF IsNone(file) THEN Cache(time, NoNames) ELSE Get(file)

\* lines 105-123: save_cache, the write taken to succeed: the file after
\* the temporary file has replaced it
save_cache(c) == Some(c)

\* the decimal digits of a number below 100
Decimal(n) == IF n < 10 THEN <<48 + n>> ELSE <<48 + (n \div 10), 48 + (n % 10)>>

\* the word of line 156, u'עונות'
SEASONS_WORD == <<1506, 1493, 1504, 1493, 1514>>

\* lines 152-156: the season count appended to the name
WithSeasonCount(name, data) ==
    Bind(DictGet(data, "containsSeason", JNull), LAMBDA seasons :
        IF seasons.t = "list" /\ Len(seasons.v) > 1
        THEN name \o T(<<" ", "(">>) \o Decimal(Len(seasons.v)) \o T(<<" ">>)
             \o SEASONS_WORD \o T(<<")">>)
        ELSE name)

\* lines 141-146: the series name of a season page, else the page's name
NameValue(data) ==
    IF DictGet(data, "@type", JNull) = JStr(TV_SEASON) /\ "partOfTVSeries" \in DOMAIN data.v
    THEN IF IsDict(data.v["partOfTVSeries"])
         THEN Some(DictGet(data.v["partOfTVSeries"], "name", JNull))
         ELSE None
    ELSE Some(DictGet(data, "name", JNull))

\* a placeholder returned where no name is found
PlaceholderWhenNoName(resp) == Some(UNKNOWN_SHOW)

\* lines 126-162: extract_show_name, given what request() returned for the
\* show page: the name, or None.  The documents hold str names only; a
\* missing name gives None, or 'None (n ...)' with a season count.
extract_show_name(resp) ==
    IF IsNone(resp) THEN None
    ELSE IF ~Get(resp).has_script THEN None
    ELSE IF IsNone(Get(resp).string) THEN None
    ELSE Bind(json_loads(Get(Get(resp).string)), LAMBDA data :
            IF IsNone(data) \/ ~IsDict(Get(data)) THEN None
            ELSE Bind(NameValue(Get(data)), LAMBDA name :
                    IF IsNone(name) THEN None
                    ELSE IF Get(name).t = "str"
                    THEN Some(WithSeasonCount(Get(name).v, Get(data)))
                    ELSE Bind(WithSeasonCount(T(<<"N", "o", "n", "e">>), Get(data)),
                              LAMBDA shown :
                            IF shown = T(<<"N", "o", "n", "e">>) THEN None ELSE Some(shown))))

\* the show pages a name fetch can be answered with
ShowPageOutcomes ==
    {Outcome("timeout", 0, None),
     Outcome("response", 200, Some(Page(FALSE, None))),
     Outcome("response", 200, Some(Page(TRUE, Some(NOT_JSON)))),
     Outcome("response", 200, Some(Page(TRUE, Some(LD_SERIES)))),
     Outcome("response", 200, Some(Page(TRUE, Some(LD_SEASON))))}

\* lines 170-172: the shows process_show_names goes through
ShowsToProcess(shows, max_shows) ==
    IF ~IsNone(max_shows) /\ Get(max_shows) # 0 /\ Get(max_shows) < Len(shows)
    THEN Take(shows, Get(max_shows))     \* shows[:max_shows], max_shows >= 0
    ELSE shows

\* line 294 with the comparison turned round
CacheIsFreshReversed(c, time) == time - c.timestamp > CACHE_TTL

\* line 294 with a cache of exactly CACHE_TTL seconds taken as fresh
CacheIsFreshInclusive(c, time) == time - c.timestamp <= CACHE_TTL

\* line 294
CacheIsFresh(c, time) == time - c.timestamp < CACHE_TTL

\* lines 299-302 and 308-311: the cached names applied to the shows
ApplyCachedNames(shows, c, fresh) ==
    [i \in DOMAIN shows |->
        IF fresh /\ Get(shows[i].url) \in DOMAIN c.shows
        THEN [shows[i] EXCEPT !.name = Some(c.shows[Get(shows[i].url)])]
        ELSE shows[i]]

\* line 318: the positions in items of the shows to fetch
ToFetch(shows, c, fresh) ==
    SelectSeq([i \in DOMAIN shows |-> i],
              LAMBDA i : ~(fresh /\ Get(shows[i].url) \in DOMAIN c.shows))

\* line 195 left out: the names by url as they were
WithoutName(shows, url, name) == shows

\* the names by url with one more name
WithName(shows, url, name) ==
    [u \in DOMAIN shows \cup {url} |-> IF u = url THEN name ELSE shows[u]]

\* ------------------------------------------------------------------------
\* extract_content as a state machine, over pages of a few nodes
\* ------------------------------------------------------------------------
\* line 408: the shows index
INDEX_PATH ==
    T(<<"/", "m", "a", "k", "o", "-", "v", "o", "d", "-", "i", "n", "d", "e", "x">>)

\* hrefs of show links
SHOW_A ==
    T(<<"/", "m", "a", "k", "o", "-", "v", "o", "d", "-", "a">>)

\* /mako-vod-b
SHOW_B ==
    T(<<"/", "m", "a", "k", "o", "-", "v", "o", "d", "-", "b">>)

\* /mako-vod-c
SHOW_C ==
    T(<<"/", "m", "a", "k", "o", "-", "v", "o", "d", "-", "c">>)

\* hrefs of episode links
HREF_VOD ==
    T(<<"/", "V", "O", "D", "-", "e", "1", ".", "h", "t", "m">>)

\* /s/VOD-e1.htm
HREF_VOD_DEEP ==
    T(<<"/", "s", "/", "V", "O", "D", "-", "e", "1", ".", "h", "t", "m">>)

\* /x?foo=bar
HREF_NO_GUID ==
    T(<<"/", "x", "?", "f", "o", "o", "=", "b", "a", "r">>)

\* /x?guid=g1
HREF_GUID ==
    T(<<"/", "x", "?", "g", "u", "i", "d", "=", "g", "1">>)

\* /x?videoGuid=g2
HREF_VIDEOGUID ==
    T(<<"/", "x", "?", "v", "i", "d", "e", "o", "G", "u", "i", "d", "=", "g", "2">>)

\* /x?a=1&VIDEOGUID=g3
HREF_UPPER_GUID ==
    T(<<"/", "x", "?", "a", "=", "1", "&", "V", "I", "D", "E", "O", "G", "U", "I", "D", "=",
        "g", "3">>)

\* /VOD-e9.htm, a link only the later selectors match
HREF_VOD_LATER ==
    T(<<"/", "V", "O", "D", "-", "e", "9", ".", "h", "t", "m">>)

\* hrefs of season links
HREF_SEASON ==
    T(<<"/", "m", "a", "k", "o", "-", "v", "o", "d", "-", "a", "/", "s", "1">>)

\* ?season=2
HREF_SEASON_QUERY ==
    T(<<"?", "s", "e", "a", "s", "o", "n", "=", "2">>)

\* texts and alt attributes of nested elements
TITLE ==
    T(<<" ", "T", " ">>)

\*   
BLANK ==
    T(<<" ", " ">>)

\* A
ALT_A ==
    T(<<"A">>)

\* C
ALT_C ==
    T(<<"C">>)

\* names held by the cache file
NAME_A ==
    T(<<"N", "a">>)

\* Nb
NAME_B ==
    T(<<"N", "b">>)

\* line 236: a[href*="videoGuid="]
VIDEOGUID_EQ ==
    T(<<"v", "i", "d", "e", "o", "G", "u", "i", "d", "=">>)


\* the most nodes a selector matches in a page
MaxNodes == 2

\* the largest --max-shows given
MaxCap == 3

\* the nodes a page of each content type is made of
ShowNodes ==
    {Node(SHOW_A, Some(ALT_A)), Node(SHOW_B, None), Node(SHOW_C, Some(ALT_C))}

SeasonNodes ==
    {Node(HREF_SEASON, Some(TITLE)), Node(HREF_SEASON_QUERY, Some(TITLE)),
     Node(HREF_SEASON, None), Node(HREF_SEASON, Some(BLANK)), Node(<< >>, Some(TITLE))}

EpisodeNodes ==
    {Node(HREF_VOD, Some(TITLE)), Node(HREF_VOD, None), Node(HREF_VOD_DEEP, Some(TITLE)),
     Node(HREF_NO_GUID, Some(TITLE)), Node(HREF_GUID, Some(TITLE)),
     Node(HREF_VIDEOGUID, Some(TITLE)), Node(HREF_UPPER_GUID, Some(TITLE)),
     Node(<< >>, Some(TITLE))}

\* line 236: whether a[href*="videoGuid="] matches the node
HasVideoGuidHref(node) == Contains(node.href, VIDEOGUID_EQ)

\* the nodes selector k of a content type can be the first to match
NodesOf(ctype, k) ==
    IF ctype = "shows" THEN ShowNodes
    ELSE IF ctype = "seasons" THEN SeasonNodes
    ELSE IF k = 1 THEN EpisodeNodes
    ELSE IF k = 2 THEN {n \in EpisodeNodes : HasVideoGuidHref(n)}
    ELSE {n \in EpisodeNodes : ~HasVideoGuidHref(n)}

\* the non-empty node lists of at most MaxNodes nodes
NodeLists(nodes) == UNION {[1..n -> nodes] : n \in 1..MaxNodes}

\* What the selectors after the active one match.  For shows the second
\* selector (li a) matches whatever the first (li > a) does.
LaterMatches(ctype, list, later) ==
    IF ctype = "shows" THEN list
    ELSE IF later THEN <<Node(HREF_VOD_LATER, Some(TITLE))>>
    ELSE << >>

\* the pages: selector k is the first to match, and matches list
Pages(ctype) ==
    {[j \in 1..SelectorCount(ctype) |-> << >>]}
    \cup {[j \in 1..SelectorCount(ctype) |->
              IF j < k THEN << >>
              ELSE IF j = k THEN list
              ELSE LaterMatches(ctype, list, later)] :
          <<k, list, later>> \in
              UNION {{<<m, l, b>> : l \in NodeLists(NodesOf(ctype, m)),
                                    b \in IF ctype = "episodes" /\ m < SelectorCount(ctype)
                                          THEN BOOLEAN ELSE {FALSE}} :
                     m \in 1..SelectorCount(ctype)}}

\* lines 38-43: what parse_args() gives extract_content, --max-shows not
\* negative
Args(skip_name_fetch, max_shows) ==
    [skip_name_fetch |-> skip_name_fetch, max_shows |-> max_shows]

ArgSets ==
    {Args(TRUE, None)} \cup {Args(FALSE, m) : m \in {None} \cup {Some(n) : n \in 0..MaxCap}}

StartTime == 1000 * Day

\* the age of the cache file when line 294 reads the clock
CacheAges == {10 * Day, CACHE_TTL - 1, CACHE_TTL, 40 * Day}

CachedNames ==
    {(Base("shows", << >>) \o SHOW_A) :> NAME_A,
     ((Base("shows", << >>) \o SHOW_A) :> NAME_A) @@ ((Base("shows", << >>) \o SHOW_B) :> NAME_B)}

\* the cache file before the run
CacheFiles ==
    {None} \cup {Some(Cache(StartTime + RequestSeconds - age, names)) :
                 age \in CacheAges, names \in CachedNames}

\* what request() of line 220 is answered with
PageOutcomes == {Outcome("timeout", 0, None), Outcome("response", 200, Some(<< >>))}

\* extract_content has not been called
ExtractIdle ==
    /\ content_type = "episodes"
    /\ page_url = << >>
    /\ selector_matches = << >>
    /\ args = Args(FALSE, None)
    /\ cache_file = None
    /\ disk = cache_file
    /\ now = StartTime
    /\ xpc = "idle"
    /\ elements = << >>
    /\ position = 1
    /\ items = << >>
    /\ seen = {}
    /\ cache = Cache(0, NoNames)
    /\ cache_is_fresh = FALSE
    /\ to_fetch = << >>
    /\ shows_to_process = << >>
    /\ show_i = 1
    /\ name_fetches = << >>
    /\ interrupted = FALSE

\* extract_content is called on a page, as main calls it (lines 408-431)
ExtractInit ==
    /\ content_type \in {"shows", "seasons", "episodes"}
    /\ page_url = IF content_type = "shows" THEN BASE_URL \o INDEX_PATH ELSE BASE_URL \o SHOW_A
    /\ selector_matches \in Pages(content_type)
    /\ args \in IF content_type = "shows" THEN ArgSets ELSE {Args(FALSE, None)}
    /\ cache_file \in IF content_type = "shows" THEN CacheFiles ELSE {None}
    /\ disk = cache_file
    /\ now = StartTime
    /\ xpc = "request"
    /\ elements = << >>
    /\ position = 1
    /\ items = << >>
    /\ seen = {}
    /\ cache = Cache(0, NoNames)
    /\ cache_is_fresh = FALSE
    /\ to_fetch = << >>
    /\ shows_to_process = << >>
    /\ show_i = 1
    /\ name_fetches = << >>
    /\ interrupted = FALSE

\* lines 220-251: the page is requested and the active selector's nodes taken
FetchPage ==
    /\ xpc = "request"
    /\ \E outcome \in PageOutcomes :
        IF IsNone(request(outcome))
        THEN xpc' = "done" /\ UNCHANGED elements
        ELSE xpc' = "elements" /\ elements' = SelectElements(selector_matches)
    /\ now' = now + RequestSeconds
    /\ UNCHANGED <<content_type, page_url, selector_matches, args, cache_file,
                   disk, position, items, seen, cache, cache_is_fresh,
                   to_fetch, shows_to_process, show_i, name_fetches,
                   interrupted, outside_extract>>

\* lines 254-280: one element of the loop
ProcessElement ==
    /\ xpc = "elements"
    /\ position <= Len(elements)
    /\ LET item == BuildItem(content_type, elements[position], Base(content_type, page_url))
           key == ItemKey(item)
       IN IF Accepted(content_type, item) /\ Len(key) > 0 /\ key \notin seen
          THEN /\ items' = Append(items, IF content_type = "shows"
                                         THEN WithTemporaryName(item) ELSE item)
               /\ seen' = seen \cup {key}
          ELSE UNCHANGED <<items, seen>>
    /\ position' = position + 1
    /\ UNCHANGED <<content_type, page_url, selector_matches, args, cache_file,
                   disk, now, xpc, elements, cache, cache_is_fresh, to_fetch,
                   shows_to_process, show_i, name_fetches, interrupted,
                   outside_extract>>

\* lines 283-288 and 328: seasons and episodes are returned, episodes after
\* their post-pass
FinishItems ==
    /\ xpc = "elements"
    /\ position > Len(elements)
    /\ content_type # "shows"
    /\ items' = IF content_type = "episodes" THEN EpisodesPostPass(items) ELSE items
    /\ xpc' = "done"
    /\ UNCHANGED <<content_type, page_url, selector_matches, args, cache_file,
                   disk, now, elements, position, seen, cache, cache_is_fresh,
                   to_fetch, shows_to_process, show_i, name_fetches,
                   interrupted, outside_extract>>

\* lines 291-323 and 166-176: the cache is loaded, its names applied when
\* fresh, and the shows to fetch settled
ResolveShowNames ==
    /\ xpc = "elements"
    /\ position > Len(elements)
    /\ content_type = "shows"
    /\ LET loaded == load_cache(disk, now)
           fresh == CacheIsFresh(loaded, now)
           fetch == IF args.skip_name_fetch THEN << >> ELSE ToFetch(items, loaded, fresh)
           batch == ShowsToProcess(fetch, args.max_shows)
       IN /\ cache' = loaded
          /\ cache_is_fresh' = fresh
          /\ items' = ApplyCachedNames(items, loaded, fresh)
          /\ to_fetch' = fetch
          /\ shows_to_process' = batch
          /\ xpc' = IF Len(batch) = 0 THEN "done" ELSE "names"
    /\ show_i' = 1
    /\ UNCHANGED <<content_type, page_url, selector_matches, args, cache_file,
                   disk, now, elements, position, seen, name_fetches,
                   interrupted, outside_extract>>

\* line 166: updates_count, which no statement changes
updates_count == 0

\* line 204: whether the cache is saved after show i of total
SaveDue(i, total) == updates_count % 10 = 0 \/ i = total

\* one request for a show page, as the batch sees it: what the session did
\* with it, the name extract_show_name returned (None: no name) and the
\* clock when it ended
NameFetch(url, kind, name, time) == [url |-> url, kind |-> kind, name |-> name, time |-> time]

\* lines 179-212: one show of the batch.  stop: KeyboardInterrupt arrives
\* once the name is stored, while lines 199-206 report and save; the
\* handler of lines 208-212 then saves and returns.
ProcessShow ==
    /\ xpc = "names"
    /\ LET at == shows_to_process[show_i]
           url == Get(items[at].url)
       IN IF url \in DOMAIN cache.shows /\ cache_is_fresh
          THEN /\ items' = [items EXCEPT ![at].name = Some(cache.shows[url])]
               /\ xpc' = IF show_i = Len(shows_to_process) THEN "done" ELSE "names"
               /\ UNCHANGED <<cache, disk, now, name_fetches, interrupted>>
          ELSE \E outcome \in ShowPageOutcomes, stop \in BOOLEAN :
                LET correct_name == extract_show_name(request(outcome))
                    found == ~IsNone(correct_name) /\ Len(Get(correct_name)) > 0
                    names == IF found THEN WithName(cache.shows, url, Get(correct_name))
                             ELSE cache.shows
                    save == stop \/ SaveDue(show_i, Len(shows_to_process))
                IN /\ now' = now + RequestSeconds
                   /\ name_fetches' = Append(name_fetches, NameFetch(url, outcome.kind,
                                                    IF found THEN correct_name ELSE None,
                                                    now'))
                   /\ items' = IF found THEN [items EXCEPT ![at].name = correct_name]
                               ELSE items
                   /\ cache' = Cache(IF save THEN now' ELSE cache.timestamp, names)
                   /\ disk' = IF save THEN save_cache(cache') ELSE disk
                   /\ interrupted' = stop
                   /\ xpc' = IF stop \/ show_i = Len(shows_to_process)
                             THEN "done" ELSE "names"
    /\ show_i' = show_i + 1
    /\ UNCHANGED <<content_type, page_url, selector_matches, args, cache_file,
                   elements, position, seen, cache_is_fresh, to_fetch,
                   shows_to_process, outside_extract>>

\* lines 208-212: KeyboardInterrupt reaches the loop while it waits out the
\* delay before a show's request (sent = FALSE) or waits for its response
InterruptShow ==
    /\ xpc = "names"
    /\ \E sent \in BOOLEAN :
        /\ now' = IF sent THEN now + RequestSeconds ELSE now
        /\ name_fetches' =
              IF sent
              THEN Append(name_fetches,
                          NameFetch(Get(items[shows_to_process[show_i]].url),
                                    "interrupted", None, now'))
              ELSE name_fetches
    /\ cache' = Cache(now', cache.shows)
    /\ disk' = save_cache(cache')
    /\ interrupted' = TRUE
    /\ xpc' = "done"
    /\ UNCHANGED <<content_type, page_url, selector_matches, args, cache_file,
                   elements, position, items, seen, cache_is_fresh, to_fetch,
                   shows_to_process, show_i, outside_extract>>

ExtractNext ==
    \/ FetchPage
    \/ ProcessElement
    \/ FinishItems
    \/ ResolveShowNames
    \/ ProcessShow
    \/ InterruptShow

\* ------------------------------------------------------------------------
\* save_cache step by step: the temporary file, the write, the rename
\* ------------------------------------------------------------------------
\* line 31: the cache file's path within its directory
CACHE_FILE == <<"mako_shows_cache.json">>

\* the cache file's own path taken for the temporary file
CacheFileAsTemp(time) == CACHE_FILE

\* line 110: temp_cache_<int(time.time())>.json
TempFile(time) == <<"temp_cache_", time, ".json">>

\* the files with one file written or replaced, and with one file removed
WithFile(fs, path, text) ==
    [p \in DOMAIN fs \cup {path} |-> IF p = path THEN text ELSE fs[p]]

WithoutFile(fs, path) == [p \in DOMAIN fs \ {path} |-> fs[p]]

\* the text of a file, None when there is none
FileText(fs, path) == IF path \in DOMAIN fs THEN Some(fs[path]) ELSE None

NL == <<10>>

\* str(n) for n >= 0
RECURSIVE IntText(_)
IntText(n) == IF n < 10 THEN <<48 + n>> ELSE IntText(n \div 10) \o <<48 + (n % 10)>>

\* json.dump's text of a str with ensure_ascii=False: quoted, with " and \
\* escaped
RECURSIVE EscapedFrom(_, _)
EscapedFrom(s, i) ==
    IF i > Len(s) THEN << >>
    ELSE (IF s[i] \in {34, 92} THEN <<92, s[i]>> ELSE <<s[i]>>) \o EscapedFrom(s, i + 1)

JsonString(s) == <<34>> \o EscapedFrom(s, 1) \o <<34>>

\* the entries of a dict in one order (Python keeps the order of insertion,
\* the names by url do not)
EntryOrder(shows) ==
    CHOOSE q \in [1..Cardinality(DOMAIN shows) -> DOMAIN shows] : Range(q) = DOMAIN shows

RECURSIVE EntryLines(_, _, _)
EntryLines(shows, order, i) ==
    IF i > Len(order) THEN << >>
    ELSE T(<<" ", " ", " ", " ">>) \o JsonString(order[i]) \o T(<<":", " ">>)
         \o JsonString(shows[order[i]])
         \o (IF i < Len(order) THEN T(<<",">>) ELSE << >>) \o NL
         \o EntryLines(shows, order, i + 1)

\* line 115: the text json.dump(cache, f, ensure_ascii=False, indent=2)
\* writes, the timestamp in whole seconds
dump(c) ==
    T(<<"{">>) \o NL
    \o T(<<" ", " ", "\"", "t", "i", "m", "e", "s", "t", "a", "m", "p", "\"", ":", " ">>)
    \o IntText(c.timestamp) \o T(<<",">>) \o NL
    \o T(<<" ", " ", "\"", "s", "h", "o", "w", "s", "\"", ":", " ">>)
    \o (IF DOMAIN c.shows = {} THEN T(<<"{", "}">>)
        ELSE T(<<"{">>) \o NL \o EntryLines(c.shows, EntryOrder(c.shows), 1)
             \o T(<<" ", " ", "}">>))
    \o NL \o T(<<"}">>)

\* the cache documents save_cache is called with and finds on disk
SavedCaches ==
    {Cache(StartTime, names) : names \in CachedNames \cup {NoNames}}

PriorCaches == {Cache(StartTime - Day, names) : names \in CachedNames}

\* save_cache(cache) is called: the directory holds the cache file or not,
\* and a temporary file of the same second left by an earlier save or not
SaveInit ==
    /\ save_pc = "start"
    /\ cache_arg \in SavedCaches
    /\ temp_file = None
    /\ target_before \in {None} \cup {Some(dump(c)) : c \in PriorCaches}
    /\ \E leftover \in BOOLEAN :
        files = LET kept == IF leftover
                            THEN WithFile(<< >>, TempFile(StartTime), T(<<"{">>))
                            ELSE << >>
                IN IF IsNone(target_before) THEN kept
                   ELSE WithFile(kept, CACHE_FILE, Get(target_before))

\* lines 108-109: the directory is made.  When os.makedirs raises, the
\* handler's line 121 reads temp_file before its assignment and the
\* UnboundLocalError leaves save_cache.
SaveMakeDirs ==
    /\ save_pc = "start"
    /\ \E ok \in BOOLEAN : save_pc' = IF ok THEN "dir" ELSE "raised"
    /\ UNCHANGED <<cache_arg, temp_file, files, target_before, outside_save>>

\* lines 110-113: the temporary file is named and opened for writing, which
\* creates it or empties it
SaveOpenTemp ==
    /\ save_pc = "dir"
    /\ temp_file' = Some(TempFile(now))
    /\ \E ok \in BOOLEAN :
        IF ok
        THEN save_pc' = "open" /\ files' = WithFile(files, TempFile(now), << >>)
        ELSE save_pc' = "except" /\ UNCHANGED files
    /\ UNCHANGED <<cache_arg, target_before, outside_save>>

\* lines 114-115: more of the document reaches the temporary file
SaveWrite ==
    /\ save_pc = "open"
    /\ \E text \in {dump(cache_arg)} :
          \E n \in (Len(files[Get(temp_file)]) + 1)..Len(text) :
              files' = WithFile(files, Get(temp_file), Take(text, n))
    /\ UNCHANGED <<save_pc, cache_arg, temp_file, target_before, outside_save>>

\* line 113: the with block is left once the document is written
SaveClose ==
    /\ save_pc = "open"
    /\ files[Get(temp_file)] = dump(cache_arg)
    /\ save_pc' = "closed"
    /\ UNCHANGED <<cache_arg, temp_file, files, target_before, outside_save>>

\* lines 113-115: a write raises an exception
SaveWriteFails ==
    /\ save_pc = "open"
    /\ save_pc' = "except"
    /\ UNCHANGED <<cache_arg, temp_file, files, target_before, outside_save>>

\* line 117: os.replace(temp_file, CACHE_FILE)
SaveReplace ==
    /\ save_pc = "closed"
    /\ \E ok \in BOOLEAN :
        IF ok
        THEN /\ save_pc' = "done"
             /\ files' = WithFile(WithoutFile(files, Get(temp_file)), CACHE_FILE,
                                  files[Get(temp_file)])
        ELSE save_pc' = "except" /\ UNCHANGED files
    /\ UNCHANGED <<cache_arg, temp_file, target_before, outside_save>>

\* lines 119-123: the handler removes the temporary file if there is one;
\* a failure to remove it is passed over
SaveExcept ==
    /\ save_pc = "except"
    /\ \E removed \in BOOLEAN :
        files' = IF removed /\ Get(temp_file) \in DOMAIN files
                 THEN WithoutFile(files, Get(temp_file)) ELSE files
    /\ save_pc' = "done"
    /\ UNCHANGED <<cache_arg, temp_file, target_before, outside_save>>

\* the process dies inside save_cache
SaveCrash ==
    /\ save_pc \in {"start", "dir", "open", "closed", "except"}
    /\ save_pc' = "crashed"
    /\ UNCHANGED <<cache_arg, temp_file, files, target_before, outside_save>>

SaveNext ==
    \/ SaveMakeDirs
    \/ SaveOpenTemp
    \/ SaveWrite
    \/ SaveClose
    \/ SaveWriteFails
    \/ SaveReplace
    \/ SaveExcept
    \/ SaveCrash

\* ------------------------------------------------------------------------
\* crypto_op on its own: a text is encrypted and the result decrypted
\* ------------------------------------------------------------------------
\* the most one-byte and two-byte characters of a text
MaxNarrow == 17

MaxWide == 2

\* a text of n one-byte characters and m two-byte ones (Hebrew letters),
\* the two-byte ones in the middle
Text(n, m) ==
    [i \in 1..(n + m) |->
        IF i <= n \div 2 THEN Ord("a") + (i % 26)
        ELSE IF i <= (n \div 2) + m THEN 1488 + (i % 27)
        ELSE Ord("A") + (i % 26)]

\* the non-empty texts crypto_op is given
Texts == {Text(n, m) : n \in 0..MaxNarrow, m \in 0..MaxWide} \ {<< >>}

\* lines 26-30: the keysets
Keysets == {"playlist", "entitlement"}

CryptoInit ==
    /\ crypto_pc = "start"
    /\ plaintext \in Texts
    /\ keyset \in Keysets
    /\ ciphertext = None
    /\ decrypted_text = None

\* lines 79-82: crypto_op(plaintext, 'encrypt', keyset)
Encrypt ==
    /\ crypto_pc = "start"
    /\ ciphertext' = crypto_op(plaintext, "encrypt", keyset)
    /\ crypto_pc' = "encrypted"
    /\ UNCHANGED <<plaintext, keyset, decrypted_text, outside_crypto>>

\* lines 75-77 and 83-84: crypto_op(ciphertext, 'decrypt', keyset); given
\* None, b64decode raises and None is returned
Decrypt ==
    /\ crypto_pc = "encrypted"
    /\ decrypted_text' = IF IsNone(ciphertext) THEN None
                    ELSE crypto_op(Get(ciphertext), "decrypt", keyset)
    /\ crypto_pc' = "decrypted"
    /\ UNCHANGED <<plaintext, keyset, ciphertext, outside_crypto>>

CryptoNext == Encrypt \/ Decrypt

\* ------------------------------------------------------------------------
\* request() and the session's adapter: the delay, the attempts, the retries
\* ------------------------------------------------------------------------
\* line 34
MAX_RETRIES == 3

\* the most calls of request() in a run
MaxCalls == 2

\* the methods request() is called with (lines 127, 220, 333, 365, 377)
Methods == {"GET", "POST"}

\* what one attempt can end in
AttemptOutcomes ==
    TransportFailures
    \cup {Outcome("response", 200, Some(Page(FALSE, None))),
          Outcome("response", 404, Some(Page(FALSE, None)))}

\* lines 46-48: HTTPAdapter(max_retries=MAX_RETRIES) sends the request again
\* after a connection error, and after a read timeout when the method is
\* idempotent, while retries are left; its backoff factor is 0, so it does
\* not wait before the next attempt
Retried(outcome, meth, left) ==
    /\ left > 0
    /\ \/ outcome.kind = "error"
       \/ outcome.kind = "timeout" /\ meth = "GET"

RequestInit ==
    /\ request_pc = "start"
    /\ http_method \in Methods
    /\ network = << >>
    /\ retries_left = MAX_RETRIES
    /\ returned = None
    /\ calls = 1

\* line 54: time.sleep(DELAY_BETWEEN_REQUESTS + random.uniform(0.5, 1.5))
Sleep ==
    /\ request_pc = "start"
    /\ network' = Append(network, "sleep")
    /\ request_pc' = "slept"
    /\ UNCHANGED <<http_method, retries_left, returned, calls, outside_request>>

\* lines 60-69: session.get or session.post makes an attempt, the first of
\* the call or one the adapter makes again; the last one's outcome is what
\* request() returns
Attempt ==
    /\ request_pc \in {"slept", "retry"}
    /\ network' = Append(network, "attempt")
    /\ \E outcome \in AttemptOutcomes :
        IF Retried(outcome, http_method, retries_left)
        THEN /\ request_pc' = "retry"
             /\ retries_left' = retries_left - 1
             /\ UNCHANGED returned
        ELSE /\ request_pc' = "returned"
             /\ returned' = request(outcome)
             /\ UNCHANGED retries_left
    /\ UNCHANGED <<http_method, calls, outside_request>>

\* request() is called again
NextCall ==
    /\ request_pc = "returned"
    /\ calls < MaxCalls
    /\ calls' = calls + 1
    /\ \E m \in Methods : http_method' = m
    /\ retries_left' = MAX_RETRIES
    /\ returned' = None
    /\ request_pc' = "start"
    /\ UNCHANGED <<network, outside_request>>

RequestNext == Sleep \/ Attempt \/ NextCall

\* ------------------------------------------------------------------------
\* main(): shows, a show, its seasons, a season, episodes, an episode, the
\* playable url
\* ------------------------------------------------------------------------
\* the most items a page gives main()
MaxItems == 2

\* an item of a list, by its url
Item(url) == [url |-> url]

\* the lists extract_content can return for a page: the first n of its links
Listing(prefix) ==
    {[i \in 1..n |-> Item(<<prefix, i>>)] : n \in 0..MaxItems}

\* a call main() made: the function, its url and content type, its result
Call(fn, url, ctype, result) == [fn |-> fn, url |-> url, ctype |-> ctype, result |-> result]

\* lines 87-92: select_item returns an item of the list, or None for an
\* empty list and for an answer that is no index of it
select_item(list) == {None} \cup {Some(list[i]) : i \in DOMAIN list}

\* the page of a season taken for the episodes of every show
ShowPageAlways(show_item, seasons_list, season_item) == show_item.url

\* lines 424-429: the page the episodes are taken from
EpisodesPage(show_item, seasons_list, season_item) ==
    IF Len(seasons_list) > 0 THEN Get(season_item).url ELSE show_item.url

\* the result of the last call
LastResult == main_calls[Len(main_calls)].result

MainInit ==
    /\ main_pc = "shows"
    /\ update_mode \in BOOLEAN
    /\ main_calls = << >>
    /\ chosen_show = None
    /\ chosen_season = None
    /\ chosen_episode = None
    /\ main_end = "running"

\* lines 406-417: the shows are extracted, in update mode and in regular mode
MainShows ==
    /\ main_pc = "shows"
    /\ \E list \in Listing("show") :
        /\ main_calls' = Append(main_calls, Call("extract_content", BASE_URL \o INDEX_PATH,
                                                 "shows", list))
        /\ IF update_mode \/ Len(list) = 0
           THEN main_pc' = "exit" /\ main_end' = "returned"
           ELSE main_pc' = "select_show" /\ UNCHANGED main_end
    /\ UNCHANGED <<update_mode, chosen_show, chosen_season, chosen_episode, outside_main>>

\* lines 419-420
SelectShow ==
    /\ main_pc = "select_show"
    /\ \E choice \in select_item(LastResult) :
        /\ chosen_show' = choice
        /\ IF IsNone(choice)
           THEN main_pc' = "exit" /\ main_end' = "returned"
           ELSE main_pc' = "seasons" /\ UNCHANGED main_end
    /\ UNCHANGED <<update_mode, main_calls, chosen_season, chosen_episode, outside_main>>

\* lines 423-424
MainSeasons ==
    /\ main_pc = "seasons"
    /\ \E list \in Listing("season") :
        /\ main_calls' = Append(main_calls, Call("extract_content", Get(chosen_show).url,
                                                 "seasons", list))
        /\ main_pc' = IF Len(list) > 0 THEN "select_season" ELSE "episodes"
    /\ UNCHANGED <<update_mode, chosen_show, chosen_season, chosen_episode, main_end,
                   outside_main>>

\* lines 425-426
SelectSeason ==
    /\ main_pc = "select_season"
    /\ \E choice \in select_item(LastResult) :
        /\ chosen_season' = choice
        /\ IF IsNone(choice)
           THEN main_pc' = "exit" /\ main_end' = "returned"
           ELSE main_pc' = "episodes" /\ UNCHANGED main_end
    /\ UNCHANGED <<update_mode, main_calls, chosen_show, chosen_episode, outside_main>>

\* lines 427-433
MainEpisodes ==
    /\ main_pc = "episodes"
    /\ \E list \in Listing("episode") :
        /\ main_calls' = Append(main_calls,
                                Call("extract_content",
                                     EpisodesPage(Get(chosen_show), LastResult, chosen_season),
                                     "episodes", list))
        /\ IF Len(list) = 0
           THEN main_pc' = "exit" /\ main_end' = "returned"
           ELSE main_pc' = "select_episode" /\ UNCHANGED main_end
    /\ UNCHANGED <<update_mode, chosen_show, chosen_season, chosen_episode, outside_main>>

\* lines 436-437
SelectEpisode ==
    /\ main_pc = "select_episode"
    /\ \E choice \in select_item(LastResult) :
        /\ chosen_episode' = choice
        /\ IF IsNone(choice)
           THEN main_pc' = "exit" /\ main_end' = "returned"
           ELSE main_pc' = "resolve" /\ UNCHANGED main_end
    /\ UNCHANGED <<update_mode, main_calls, chosen_show, chosen_season, outside_main>>

\* lines 439-444: the playable url is asked for, found or not
MainResolve ==
    /\ main_pc = "resolve"
    /\ \E found \in BOOLEAN :
        main_calls' = Append(main_calls,
                             Call("get_video_url", Get(chosen_episode).url, "",
                                  IF found THEN Some(URL_PLAIN) ELSE None))
    /\ main_pc' = "exit"
    /\ main_end' = "returned"
    /\ UNCHANGED <<update_mode, chosen_show, chosen_season, chosen_episode, outside_main>>

\* lines 446-451: KeyboardInterrupt or another exception reaches main()
MainCaught ==
    /\ main_pc \notin {"idle", "exit"}
    /\ main_pc' = "exit"
    /\ main_end' = "caught"
    /\ UNCHANGED <<update_mode, main_calls, chosen_show, chosen_season, chosen_episode,
                   outside_main>>

MainNext ==
    \/ MainShows
    \/ SelectShow
    \/ MainSeasons
    \/ SelectSeason
    \/ MainEpisodes
    \/ SelectEpisode
    \/ MainResolve
    \/ MainCaught

\* ------------------------------------------------------------------------
\* Run after run: extract_content(index, 'shows') over the cache file the
\* run before left
\* ------------------------------------------------------------------------
\* the most runs
MaxRuns == 2

\* the time from the end of a run to the start of the next
RunGaps == {Day, 31 * Day}

\* the first run: the shows are extracted with the name fetch enabled
RunsInit ==
    /\ ExtractInit
    /\ content_type = "shows"
    /\ ~args.skip_name_fetch
    /\ run = 1

\* The program is started again with the same arguments: extract_content
\* starts over (lines 220, 244-247) on the cache file as it is on disk.
\* cache_file stays the file the first run found and name_fetches the
\* requests of every run, for the record.
NextRun ==
    /\ xpc = "done"
    /\ run \in 1..(MaxRuns - 1)
    /\ run' = run + 1
    /\ \E gap \in RunGaps : now' = now + gap
    /\ xpc' = "request"
    /\ elements' = << >>
    /\ position' = 1
    /\ items' = << >>
    /\ seen' = {}
    /\ cache' = Cache(0, NoNames)
    /\ cache_is_fresh' = FALSE
    /\ to_fetch' = << >>
    /\ shows_to_process' = << >>
    /\ show_i' = 1
    /\ interrupted' = FALSE
    /\ UNCHANGED <<content_type, page_url, selector_matches, args, cache_file, disk,
                   name_fetches, resolver_vars, save_vars, crypto_vars, request_vars,
                   main_vars>>

RunsNext ==
    \/ FetchPage
    \/ ProcessElement
    \/ ResolveShowNames
    \/ ProcessShow
    \/ InterruptShow
    \/ NextRun

\* get_video_url is called on an episode url
InitResolver == ResolverInit /\ ExtractIdle /\ SaveIdle /\ CryptoIdle /\ RequestIdle /\ MainIdle /\ RunsIdle

SpecResolver == InitResolver /\ [][ResolverNext]_vars

\* extract_content is called on a page
InitExtract == ExtractInit /\ ResolverInit /\ SaveIdle /\ CryptoIdle /\ RequestIdle /\ MainIdle /\ RunsIdle

SpecExtract == InitExtract /\ [][ExtractNext]_vars

\* save_cache is called on a cache directory
InitSave == SaveInit /\ ResolverInit /\ ExtractIdle /\ CryptoIdle /\ RequestIdle /\ MainIdle /\ RunsIdle

SpecSave == InitSave /\ [][SaveNext]_vars

\* crypto_op is called on a text
InitCrypto == CryptoInit /\ ResolverInit /\ ExtractIdle /\ SaveIdle /\ RequestIdle /\ MainIdle /\ RunsIdle

SpecCrypto == InitCrypto /\ [][CryptoNext]_vars

\* request() is called
InitRequest == RequestInit /\ ResolverInit /\ ExtractIdle /\ SaveIdle /\ CryptoIdle /\ MainIdle /\ RunsIdle

SpecRequest == InitRequest /\ [][RequestNext]_vars

\* main() is called
InitMain == MainInit /\ ResolverInit /\ ExtractIdle /\ SaveIdle /\ CryptoIdle /\ RequestIdle /\ RunsIdle

SpecMain == InitMain /\ [][MainNext]_vars

\* the program is run on the index page
InitRuns == RunsInit /\ ResolverInit /\ SaveIdle /\ CryptoIdle /\ RequestIdle /\ MainIdle

SpecRuns == InitRuns /\ [][RunsNext]_vars

\* ------------------------------------------------------------------------
\* Properties of the playback resolver
\* ------------------------------------------------------------------------
\* the stages whose request was sent, in order
StagesSent == [i \in DOMAIN requests_sent |-> requests_sent[i].stage]

\* get_video_url has returned after the entitlement POST
EntitlementStageDone == rpc = "done" /\ Len(requests_sent) = 3

\* the entitlement response arrived and its text does not decrypt, or the
\* decrypted text does not parse
EntitlementUnreadable ==
    /\ ~IsNone(resp_entitlement)
    /\ Bind(crypto_op(Strip(Get(resp_entitlement)), "decrypt", "entitlement"),
            LAMBDA dec : IsNone(dec) \/ IsNone(json_loads(Get(dec))))

\* C1: once the playlist stage has produced the media url P, an entitlement
\* response that fails to decrypt or to parse makes get_video_url return
\* exactly P.
C1_UnreadableEntitlementReturnsPlaylistUrl ==
    (EntitlementStageDone /\ EntitlementUnreadable) => video_url = hls_url

\* the tickets of an entitlement response that decrypts and parses to an
\* object whose tickets are absent or a list; << >> otherwise
ParsedTickets ==
    IF IsNone(resp_entitlement) THEN None
    ELSE Bind(crypto_op(Strip(Get(resp_entitlement)), "decrypt", "entitlement"),
              LAMBDA dec :
            IF IsNone(dec) \/ IsNone(json_loads(Get(dec))) THEN None
            ELSE Bind(Get(json_loads(Get(dec))), LAMBDA data :
                    IF ~IsDict(data) THEN None
                    ELSE IF "tickets" \notin DOMAIN data.v THEN Some(<< >>)
                    ELSE IF data.v["tickets"].t = "list" THEN Some(data.v["tickets"].v)
                    ELSE None))

\* the first ticket of a ticket list when it is a non-empty str, else the
\* empty str
FirstTicket(tickets) ==
    IF Len(tickets) > 0 /\ IsDict(tickets[1]) /\ "ticket" \in DOMAIN tickets[1].v
       /\ tickets[1].v["ticket"].t = "str"
    THEN tickets[1].v["ticket"].v
    ELSE << >>

\* a url holds a query string: it holds the '?' that starts one
HasQueryString(url) == \E i \in DOMAIN url : url[i] = Ord("?")

\* C4: when every stage succeeds, get_video_url returns P & T for a url P
\* that has a query string and P ? T otherwise, T being the first ticket
\* when it is non-empty; with an empty ticket list or a missing or empty
\* first ticket it returns P unchanged.
C4_TicketAppendedWithSeparator ==
    (EntitlementStageDone /\ ~IsNone(ParsedTickets)) =>
        Bind(FirstTicket(Get(ParsedTickets)), LAMBDA ticket :
            video_url =
                Some(IF Len(ticket) = 0 THEN Get(hls_url)
                     ELSE Get(hls_url)
                          \o (IF HasQueryString(Get(hls_url)) THEN T(<<"&">>) ELSE T(<<"?">>))
                          \o ticket))

\* a url with a query string got its ticket after '&'
C4_Witness ==
    /\ EntitlementStageDone
    /\ hls_url = Some(URL_QUERY)
    /\ video_url = Some(URL_QUERY \o T(<<"&">>) \o TICKET_B)

\* the entitlement POST failed at the transport level: no connection, a
\* timeout, or an HTTP error status
EntitlementTransportFailed ==
    /\ EntitlementStageDone
    /\ \/ requests_sent[3].kind # "response"
       \/ requests_sent[3].status >= 400

\* C5: when the entitlement POST fails at the transport level, get_video_url
\* returns the playlist url unchanged, and not a failure.
C5_TransportFailureReturnsPlaylistUrl ==
    EntitlementTransportFailed =>
        /\ ~raised
        /\ ~IsNone(hls_url)
        /\ video_url = hls_url

\* the POST was answered with an error status and the plain url came back
C5_Witness ==
    /\ EntitlementTransportFailed
    /\ requests_sent[3].kind = "response"
    /\ video_url = Some(URL_PLAIN)

\* the playlist response was non-empty, decrypted and parsed
PlaylistReadable ==
    /\ ~IsNone(resp_playlist)
    /\ Len(Strip(Get(resp_playlist))) > 0
    /\ Bind(crypto_op(Strip(Get(resp_playlist)), "decrypt", "playlist"),
            LAMBDA dec : ~IsNone(dec) /\ ~IsNone(json_loads(Get(dec))))

\* C6: the requests go out in the order detail, playlist, entitlement; the
\* playlist GET only after three non-empty identifiers, the entitlement
\* POST only after a playlist response that was non-empty, decrypted,
\* parsed and gave a media url; a failure at the detail or playlist stage
\* ends the resolution with no url and no later request; no exception
\* leaves get_video_url.
C6_LinearWithEarlyExit ==
    /\ ~raised
    /\ StagesSent = Take(<<"detail", "playlist", "entitlement">>, Len(requests_sent))
    /\ Len(requests_sent) >= 2 =>
          /\ ~IsNone(resp_detail)
          /\ ~IsNone(details)
          /\ \A k \in DOMAIN Get(details) : Truthy(Get(details)[k])
    /\ Len(requests_sent) >= 3 =>
          /\ PlaylistReadable
          /\ ~IsNone(hls_url)
          /\ Len(Get(hls_url)) > 0
    /\ (Len(requests_sent) >= 1 /\ IsNone(details)) =>
          (rpc = "done" /\ IsNone(video_url) /\ Len(requests_sent) = 1)
    /\ (Len(requests_sent) >= 2 /\ IsNone(hls_url)) =>
          (rpc = "done" /\ IsNone(video_url) /\ Len(requests_sent) = 2)

\* a playlist response arrived and could not be used: the resolution ended
\* after two requests with no url
C6_Witness ==
    /\ rpc = "done"
    /\ Len(requests_sent) = 2
    /\ ~IsNone(resp_playlist)
    /\ ~PlaylistReadable
    /\ IsNone(video_url)

\* ------------------------------------------------------------------------
\* Properties of extract_content for episodes
\* ------------------------------------------------------------------------
\* extract_content(url, 'episodes') has returned items
EpisodesReturned == content_type = "episodes" /\ xpc = "done"

\* the url an episode node's href resolves to
ResolvedUrl(node) == urljoin(Base("episodes", page_url), node.href)

\* the node has a non-empty title
HasTitle(node) == ~IsNone(node.nested) /\ Len(Strip(Get(node.nested))) > 0

\* the returned items built from a node: those with the node's resolved url
ItemsOf(node) == {i \in DOMAIN items : items[i].url = Some(ResolvedUrl(node))}

\* C2: no returned episode item comes from a node whose href neither
\* matches /VOD-<id>.htm nor carries a guid= or videoGuid= parameter, title
\* or not.
C2_NoItemWithoutResolvableGuid ==
    EpisodesReturned =>
        \A k \in DOMAIN elements :
            (/\ Len(elements[k].href) > 0
             /\ IsNone(SearchVodGuid(elements[k].href))
             /\ IsNone(SearchQueryGuid(elements[k].href)))
            => ItemsOf(elements[k]) = {}

\* C7: a titled node whose href does not match the path pattern and whose
\* resolved url carries guid=G or videoGuid=G, in any letter case, has a
\* returned item whose guid is G.
C7_QueryGuidIsTheParameterValue ==
    EpisodesReturned =>
        \A k \in DOMAIN elements :
            (/\ Len(elements[k].href) > 0
             /\ HasTitle(elements[k])
             /\ IsNone(SearchVodGuid(elements[k].href))
             /\ ~IsNone(SearchQueryGuid(ResolvedUrl(elements[k]))))
            => \E i \in ItemsOf(elements[k]) :
                  items[i].guid = SearchQueryGuid(ResolvedUrl(elements[k]))

\* ------------------------------------------------------------------------
\* Properties of the show-name cache policy
\* ------------------------------------------------------------------------
ThirtyDays == 30 * Day

\* the clock when line 294 reads it: one request, the page's, came before
LoadTime == StartTime + RequestSeconds

\* the run found a cache file, of this age when it was loaded
HasCacheFile == ~IsNone(cache_file)

FileAge == LoadTime - Get(cache_file).timestamp

\* the cache file the run found holds a name for the url
HasCachedEntry(url) == HasCacheFile /\ url \in DOMAIN Get(cache_file).shows

CachedName(url) == Get(cache_file).shows[url]

ShowUrl(i) == Get(items[i].url)

\* the urls a name fetch was issued for
FetchedUrls == {name_fetches[i].url : i \in DOMAIN name_fetches}

\* extract_content(url, 'shows') has returned items
ShowsReturned == content_type = "shows" /\ xpc = "done"

\* C3: in bypass mode no name fetch is issued and every extracted show
\* whose url is in the cache gets its cached name, whatever the age of the
\* cache.
C3_BypassAppliesCachedNamesAtAnyAge ==
    (ShowsReturned /\ args.skip_name_fetch) =>
        /\ name_fetches = << >>
        /\ \A i \in DOMAIN items :
              HasCachedEntry(ShowUrl(i)) => items[i].name = Some(CachedName(ShowUrl(i)))

\* C8: with bypass off and a cache less than 30 days old, every extracted
\* show whose url has a cached entry has the cached name and no name fetch
\* is issued for it; the name fetches are for shows absent from the cache.
C8_FreshCacheIsReused ==
    (/\ content_type = "shows"
     /\ xpc \in {"names", "done"}
     /\ ~args.skip_name_fetch
     /\ HasCacheFile
     /\ FileAge < ThirtyDays) =>
        /\ \A i \in DOMAIN items :
              HasCachedEntry(ShowUrl(i)) =>
                  /\ items[i].name = Some(CachedName(ShowUrl(i)))
                  /\ ShowUrl(i) \notin FetchedUrls
        /\ \A u \in FetchedUrls :
              /\ ~HasCachedEntry(u)
              /\ \E i \in DOMAIN items : ShowUrl(i) = u

\* a cache one second short of 30 days: the cached show kept its cached
\* name and the other show was fetched
C8_Witness ==
    /\ ShowsReturned
    /\ ~args.skip_name_fetch
    /\ HasCacheFile
    /\ FileAge = ThirtyDays - 1
    /\ Len(items) = 2
    /\ HasCachedEntry(ShowUrl(1))
    /\ items[1].name = Some(NAME_A)
    /\ ~HasCachedEntry(ShowUrl(2))
    /\ FetchedUrls = {ShowUrl(2)}

\* the show at position i of items is one the batch gets to: the batch is
\* not interrupted, and with a cap of N the show is among the first N of
\* to_fetch
BatchReaches(i) ==
    /\ ~interrupted
    /\ \/ IsNone(args.max_shows)
       \/ \E j \in 1..Min(Get(args.max_shows), Len(to_fetch)) : to_fetch[j] = i

\* the run had bypass off and found a cache 30 days old or older
StaleCacheRun ==
    /\ ShowsReturned
    /\ ~args.skip_name_fetch
    /\ HasCacheFile
    /\ FileAge >= ThirtyDays

\* C9 as stated: with bypass off and a cache 30 days old or older no cached
\* name is applied, every extracted show is in to_fetch, and a name fetch is
\* issued for each show that has a cached entry.
C9_StaleCacheFetchesEveryCachedShow ==
    StaleCacheRun =>
        /\ Range(to_fetch) = DOMAIN items
        /\ \A i \in DOMAIN items :
              HasCachedEntry(ShowUrl(i)) =>
                  /\ items[i].name # Some(CachedName(ShowUrl(i)))
                  /\ ShowUrl(i) \in FetchedUrls

\* C9 amended: with bypass off and a cache 30 days old or older no cached
\* name is applied, every extracted show is in to_fetch, and a name fetch is
\* issued for each show with a cached entry that the batch gets to: the
\* show is among the first max_shows of to_fetch when a cap is given, and
\* the batch is not interrupted.
C9_StaleCacheFetchesWithinTheBatch ==
    StaleCacheRun =>
        /\ Range(to_fetch) = DOMAIN items
        /\ \A i \in DOMAIN items :
              HasCachedEntry(ShowUrl(i)) =>
                  /\ items[i].name # Some(CachedName(ShowUrl(i)))
                  /\ BatchReaches(i) => ShowUrl(i) \in FetchedUrls

\* a cache of exactly 30 days and a cap of one: of two cached shows the
\* first was fetched and the second was not
C9_Witness ==
    /\ StaleCacheRun
    /\ FileAge = ThirtyDays
    /\ ~interrupted
    /\ args.max_shows = Some(1)
    /\ Len(items) = 2
    /\ HasCachedEntry(ShowUrl(1))
    /\ HasCachedEntry(ShowUrl(2))
    /\ FetchedUrls = {ShowUrl(1)}

\* C10: with a cap max_shows = N >= 0 the name fetches of a batch that runs
\* to its end are for the first min(N, |to_fetch|) shows of to_fetch, in
\* order, and for no other show.
C10_CapHonouredExactly ==
    (/\ ShowsReturned
     /\ ~args.skip_name_fetch
     /\ ~IsNone(args.max_shows)
     /\ ~interrupted) =>
        [i \in DOMAIN name_fetches |-> name_fetches[i].url]
            = [j \in 1..Min(Get(args.max_shows), Len(to_fetch)) |-> ShowUrl(to_fetch[j])]

\* ------------------------------------------------------------------------
\* Properties of the name-fetch batch
\* ------------------------------------------------------------------------
\* the batch was ended by KeyboardInterrupt and process_show_names returned
BatchInterrupted == content_type = "shows" /\ xpc = "done" /\ interrupted

\* the name fetches that gave a name
CompletedFetches == {k \in DOMAIN name_fetches : ~IsNone(name_fetches[k].name)}

\* C11: when KeyboardInterrupt ends the batch, during the delay, a fetch or
\* a save, the cache file has been saved before process_show_names returns:
\* it holds every name a fetch of the batch gave, it keeps the entries it
\* had, and its timestamp is the time of the save.
C11_InterruptSavesCompletedNames ==
    BatchInterrupted =>
        /\ ~IsNone(disk)
        /\ Get(disk).timestamp = now
        /\ \A k \in CompletedFetches :
              /\ name_fetches[k].url \in DOMAIN Get(disk).shows
              /\ Get(disk).shows[name_fetches[k].url] = Get(name_fetches[k].name)
        /\ ~IsNone(cache_file) =>
              \A u \in DOMAIN Get(cache_file).shows : u \in DOMAIN Get(disk).shows

\* the first show's name was fetched, the second show's request was cut
\* short, and the file holds the first name only
C11_Witness ==
    /\ BatchInterrupted
    /\ Len(name_fetches) = 2
    /\ CompletedFetches = {1}
    /\ name_fetches[2].kind = "interrupted"
    /\ Get(disk).shows[name_fetches[1].url] = Get(name_fetches[1].name)
    /\ name_fetches[2].url \notin DOMAIN Get(disk).shows

\* ------------------------------------------------------------------------
\* Properties of save_cache
\* ------------------------------------------------------------------------
\* the text at the cache file's path, None when no file is there
TargetText == FileText(files, CACHE_FILE)

\* C12: at every point of save_cache, a crash at any of them included, the
\* cache file is the whole file found or the whole new document: it is
\* never written in place and never holds part of a document.
C12_TargetIsWholeOldOrWholeNew ==
    save_pc # "idle" => TargetText \in {target_before, Some(dump(cache_arg))}

\* the process died with part of the document in the temporary file, and
\* the cache file is the one found
C12_Witness ==
    /\ save_pc = "crashed"
    /\ ~IsNone(temp_file)
    /\ Get(temp_file) \in DOMAIN files
    /\ Len(files[Get(temp_file)]) > 1
    /\ Len(files[Get(temp_file)]) < Len(dump(cache_arg))
    /\ ~IsNone(target_before)
    /\ TargetText = target_before

\* ------------------------------------------------------------------------
\* Properties of the selector choice
\* ------------------------------------------------------------------------
\* selector k is the first, in configured order, that matches a node
FirstToMatch(k) ==
    /\ k \in DOMAIN selector_matches
    /\ Len(selector_matches[k]) > 0
    /\ \A l \in 1..(k - 1) : Len(selector_matches[l]) = 0

\* the item is built from a node of the list
BuiltFrom(item, list) ==
    \E j \in DOMAIN list :
        item.url = Some(urljoin(Base(content_type, page_url), list[j].href))

\* C13: the elements of a page are the matches of the first selector that
\* matches a node and of no other, every item is built from one of them,
\* and a page no selector matches gives the empty list.
C13_FirstMatchingSelectorOnly ==
    /\ \A k \in DOMAIN selector_matches :
          FirstToMatch(k) =>
              /\ xpc = "elements" => elements = selector_matches[k]
              /\ Len(items) <= Len(selector_matches[k])
              /\ \A i \in DOMAIN items : BuiltFrom(items[i], selector_matches[k])
    /\ (\A k \in DOMAIN selector_matches : Len(selector_matches[k]) = 0) =>
          /\ elements = << >>
          /\ items = << >>
          /\ xpc \in {"request", "elements", "done"}

\* an episodes page whose first selector matches nothing, whose second
\* matches and whose later ones match another node, has been extracted
C13_Witness ==
    /\ EpisodesReturned
    /\ Len(items) > 0
    /\ \E k \in 2..Len(selector_matches) :
          /\ FirstToMatch(k)
          /\ \E l \in (k + 1)..Len(selector_matches) :
                /\ Len(selector_matches[l]) > 0
                /\ ~BuiltFrom(BuildItem(content_type, selector_matches[l][1],
                                        Base(content_type, page_url)),
                              selector_matches[k])

\* ------------------------------------------------------------------------
\* Properties of the deduplication
\* ------------------------------------------------------------------------
\* the identity key of an item: its guid if it has one, else its url
IdentityKey(item) == IF ~IsNone(item.guid) THEN item.guid ELSE item.url

\* the item element n of the page gives
ItemAt(n) == BuildItem(content_type, elements[n], Base(content_type, page_url))

\* element n gives an item with every declared field, or a show with a url
Complete(n) ==
    \/ \A k \in DOMAIN Fields(content_type) :
          ~IsNone(ItemAt(n)[Fields(content_type)[k].field])
    \/ content_type = "shows" /\ ~IsNone(ItemAt(n).url)

\* element n is the first complete one, in document order, with its key
FirstWithKey(n) ==
    /\ Complete(n)
    /\ \A m \in 1..(n - 1) : Complete(m) => IdentityKey(ItemAt(m)) # IdentityKey(ItemAt(n))

\* the elements gone through whose items are kept, in document order
KeptElements == SelectSeq([n \in 1..(position - 1) |-> n], FirstWithKey)

\* C14: no two items have the same identity key, and the items are those
\* of the first complete element of each key, in document order.
C14_OneItemPerKeyFirstWinsInOrder ==
    /\ \A i, j \in DOMAIN items : i # j => IdentityKey(items[i]) # IdentityKey(items[j])
    /\ Len(items) = Len(KeptElements)
    /\ \A i \in DOMAIN items :
          /\ IdentityKey(items[i]) = IdentityKey(ItemAt(KeptElements[i]))
          /\ items[i].url = ItemAt(KeptElements[i]).url

\* two complete elements with different urls and one key were gone through,
\* and the first one's item is the one returned
C14_Witness ==
    /\ xpc = "done"
    /\ Len(elements) = 2
    /\ Complete(1) /\ Complete(2)
    /\ ItemAt(1).url # ItemAt(2).url
    /\ IdentityKey(ItemAt(1)) = IdentityKey(ItemAt(2))
    /\ Len(items) = 1
    /\ items[1].url = ItemAt(1).url

\* ------------------------------------------------------------------------
\* Properties of the acceptance rule
\* ------------------------------------------------------------------------
\* the fields each content type declares
DeclaredFields ==
    IF content_type = "shows" THEN {"url", "temp_name"}
    ELSE IF content_type = "seasons" THEN {"name", "url"}
    ELSE {"name", "url", "guid"}

\* what the node gives a declared field is not empty: a name is the
\* stripped text of the nested element, a temporary name its alt attribute,
\* a url and a guid come from the href attribute
Produces(node, field) ==
    IF field = "name" THEN HasTitle(node)
    ELSE IF field = "temp_name" THEN ~IsNone(node.nested) /\ Len(Get(node.nested)) > 0
    ELSE Len(node.href) > 0

\* the node meets the acceptance rule
MeetsRule(node) ==
    \/ \A f \in DeclaredFields : Produces(node, f)
    \/ content_type = "shows" /\ Produces(node, "url")

\* the step goes through one element of the page
ElementStep == xpc = "elements" /\ position' = position + 1

\* C19: the element gone through gives an item exactly when it meets the
\* acceptance rule and its key is not one already kept; a show without a
\* name of its own is given the placeholder.
C19_AcceptedIffComplete ==
    [][ElementStep =>
          /\ Len(items') \in {Len(items), Len(items) + 1}
          /\ Len(items') = Len(items) + 1 <=>
                /\ MeetsRule(elements[position])
                /\ \A i \in DOMAIN items :
                      IdentityKey(items[i]) # IdentityKey(ItemAt(position))
          /\ Len(items') = Len(items) + 1 =>
                /\ SubSeq(items', 1, Len(items)) = items
                /\ items'[Len(items')].url = ItemAt(position).url
                /\ content_type = "shows" =>
                      items'[Len(items')].name =
                          IF Produces(elements[position], "temp_name")
                          THEN elements[position].nested ELSE Some(UNKNOWN_SHOW)
                /\ content_type # "shows" =>
                      items'[Len(items')].name = Some(Strip(Get(elements[position].nested)))
    ]_vars

\* a page was gone through whose first element has no name element and
\* whose second is complete: one item is returned.  Or a show without a
\* name of its own is returned under the placeholder.
C19_Witness ==
    /\ xpc = "done"
    /\ Len(elements) = 2
    /\ \/ /\ content_type \in {"seasons", "episodes"}
          /\ IsNone(elements[1].nested) /\ MeetsRule(elements[2])
          /\ Len(items) = 1
          /\ items[1].url = ItemAt(2).url
       \/ /\ content_type = "shows"
          /\ args.skip_name_fetch
          /\ IsNone(cache_file)
          /\ IsNone(elements[1].nested)
          /\ items[1].name = Some(UNKNOWN_SHOW)

\* ------------------------------------------------------------------------
\* Properties of a failed name fetch
\* ------------------------------------------------------------------------
\* the step ends a show's name fetch without a name (no response, no
\* metadata tag, metadata that cannot be parsed) and no interrupt arrives
FailedFetchStep ==
    /\ xpc = "names"
    /\ Len(name_fetches') = Len(name_fetches) + 1
    /\ LET f == name_fetches'[Len(name_fetches')]
       IN /\ f.kind # "interrupted"
          /\ f.kind = "timeout" \/ IsNone(f.name)
    /\ ~interrupted'

\* the urls of the shows of the batch, in the batch's order
BatchUrls == [k \in DOMAIN shows_to_process |-> Get(items[shows_to_process[k]].url)]

\* C18: a failed name fetch changes neither a show's name nor the names of
\* the cache, in memory or on disk, and the batch goes on with the next
\* show; a batch that is not interrupted fetches every show of it in order.
C18_FailedFetchIsPassedOver ==
    [][FailedFetchStep =>
          /\ items' = items
          /\ cache'.shows = cache.shows
          /\ ~IsNone(disk') => Get(disk').shows = cache.shows
          /\ IsNone(disk') => IsNone(disk)
          /\ show_i' = show_i + 1
          /\ xpc' = IF show_i < Len(shows_to_process) THEN "names" ELSE "done"
          /\ name_fetches'[Len(name_fetches')].url = BatchUrls[show_i]
    ]_vars

\* the first fetch of a batch of two failed and the second found a name
C18_Witness ==
    /\ ShowsReturned
    /\ ~interrupted
    /\ Len(shows_to_process) = 2
    /\ Len(name_fetches) = 2
    /\ IsNone(name_fetches[1].name)
    /\ ~IsNone(name_fetches[2].name)
    /\ name_fetches[1].url = BatchUrls[1]
    /\ name_fetches[2].url = BatchUrls[2]
    /\ items[shows_to_process[2]].name = name_fetches[2].name
    /\ name_fetches[1].url \notin DOMAIN Get(disk).shows

\* ------------------------------------------------------------------------
\* Properties of crypto_op
\* ------------------------------------------------------------------------
\* C15: a non-empty text encrypted and then decrypted with one keyset is
\* the text again.
C15_DecryptOfEncryptIsTheText ==
    crypto_pc = "decrypted" => decrypted_text = Some(plaintext)

\* a text of fewer than 16 characters whose bytes, two-byte characters
\* among them, fill a block or more went through both operations with the
\* entitlement keyset
C15_Witness ==
    /\ crypto_pc = "decrypted"
    /\ keyset = "entitlement"
    /\ \E i \in DOMAIN plaintext : plaintext[i] > 127
    /\ Len(plaintext) < block_size
    /\ Len(Get(ciphertext)) = 44
    /\ decrypted_text = Some(plaintext)

\* ------------------------------------------------------------------------
\* Properties of the throttle
\* ------------------------------------------------------------------------
\* C16: every attempt that reaches the network, the adapter's retries
\* included, comes right after the delay.
C16_EveryAttemptFollowsTheDelay ==
    \A i \in DOMAIN network :
        network[i] = "attempt" => i > 1 /\ network[i - 1] = "sleep"

\* ------------------------------------------------------------------------
\* Properties of main()
\* ------------------------------------------------------------------------
\* the calls of the playback resolver, by their place among main()'s calls
ResolverCalls == {i \in DOMAIN main_calls : main_calls[i].fn = "get_video_url"}

\* call i extracted the content type from the page
Extracted(i, ctype, url) ==
    /\ main_calls[i].fn = "extract_content"
    /\ main_calls[i].ctype = ctype
    /\ main_calls[i].url = url

\* the optional item is one of the list
ChosenFrom(item, list) == ~IsNone(item) /\ \E k \in DOMAIN list : list[k] = Get(item)

\* C17: the playback resolver is called at most once, and only as the
\* fourth call, after a non-empty show list, a show of it, the show's
\* seasons, a non-empty episode list from the chosen season's page (from
\* the show's page when it has no seasons) and an episode of it.  Nothing
\* is called after an empty show list or an empty episode list, main()
\* then returns, and update mode calls the show extraction only.
C17_ResolverOnceAfterEveryStep ==
    /\ Cardinality(ResolverCalls) <= 1
    /\ \A r \in ResolverCalls :
          /\ ~update_mode
          /\ r = 4
          /\ Extracted(1, "shows", BASE_URL \o INDEX_PATH)
          /\ Len(main_calls[1].result) > 0
          /\ ChosenFrom(chosen_show, main_calls[1].result)
          /\ Extracted(2, "seasons", Get(chosen_show).url)
          /\ IF Len(main_calls[2].result) > 0
             THEN /\ ChosenFrom(chosen_season, main_calls[2].result)
                  /\ Extracted(3, "episodes", Get(chosen_season).url)
             ELSE Extracted(3, "episodes", Get(chosen_show).url)
          /\ Len(main_calls[3].result) > 0
          /\ ChosenFrom(chosen_episode, main_calls[3].result)
          /\ main_calls[4].url = Get(chosen_episode).url
    /\ \A i \in DOMAIN main_calls :
          /\ Len(main_calls[i].result) = 0 /\ main_calls[i].ctype \in {"shows", "episodes"} =>
                /\ i = Len(main_calls)
                /\ main_pc = "exit"
                /\ main_end = "returned"
          /\ update_mode => i = 1 /\ Extracted(1, "shows", BASE_URL \o INDEX_PATH)

\* the resolver was called for an episode of a season's page
C17_Witness ==
    /\ main_pc = "exit"
    /\ ResolverCalls = {4}
    /\ Len(main_calls[2].result) = 2
    /\ chosen_season = Some(main_calls[2].result[2])
    /\ main_calls[3].url = main_calls[2].result[2].url
    /\ chosen_episode = Some(main_calls[3].result[1])

\* ------------------------------------------------------------------------
\* Properties of the cache across runs
\* ------------------------------------------------------------------------
\* the times a name for the url was written to the cache: the time of the
\* file the first run found, when it held the url, and the end of every
\* name fetch for the url that gave a name
WrittenAt(url) ==
    (IF HasCachedEntry(url) THEN {Get(cache_file).timestamp} ELSE {})
    \cup {name_fetches[k].time :
             k \in {j \in DOMAIN name_fetches :
                       name_fetches[j].url = url /\ ~IsNone(name_fetches[j].name)}}

\* the step gives item i another name without a request for a show page
NamedWithoutFetch(i) ==
    /\ i \in DOMAIN items /\ i \in DOMAIN items'
    /\ items'[i].url = items[i].url
    /\ items'[i].name # items[i].name
    /\ name_fetches' = name_fetches

\* C20: with the name fetch enabled in every run, a name given to a show
\* without a fetch was written to the cache less than 30 days before.
C20_AppliedEntryIsYoungerThanThirtyDays ==
    [][\A i \in DOMAIN items :
          NamedWithoutFetch(i) =>
              \E t \in WrittenAt(Get(items[i].url)) : now - t < ThirtyDays
    ]_vars

====
